---- MODULE Spec2Model ----
(***************************************************************************)
(* A model of ssmcp's protocol translation layer (src/lib.mjs): the        *)
(* manifest-driven initializer, the content transcoders and the request    *)
(* dispatchers, together with the upstream HTTP server they talk to.       *)
(*                                                                         *)
(* Strings are TLA+ strings (Len, SubSeq and \o work on them in TLC).      *)
(* A JavaScript/JSON value is a tagged record:                             *)
(*   [t |-> "undefined"], [t |-> "null"], [t |-> "bool", b |-> BOOLEAN],   *)
(*   [t |-> "num", n |-> Int], [t |-> "str", s |-> STRING],                *)
(*   [t |-> "arr", a |-> sequence of values],                              *)
(*   [t |-> "obj", o |-> sequence of [k |-> key, v |-> value]]             *)
(* An object keeps its keys in insertion order, as JavaScript does.        *)
(***************************************************************************)
EXTENDS Integers, Sequences, FiniteSets, TLC

VARIABLES
    config,      \* the config object passed to initializeServerState
    upstream,    \* what the upstream server answers to the manifest and section GETs
    initPc,      \* position of the initializeServerState invocation
    manifest,    \* the parsed manifest (undefined until the manifest GET is parsed)
    fetches,     \* the four fetchManifestSection promises, by section name
    initResult,  \* what the caller of initializeServerState observes
    initLog,     \* the HTTP requests initializeServerState has issued, in order
    call,        \* the dispatcher invocation in progress or last completed
    peer,        \* a second dispatcher invocation, running interleaved with call
    sample       \* the transcoder invocation in progress or last completed

vars == <<config, upstream, initPc, manifest, fetches, initResult, initLog, call, peer, sample>>

-----------------------------------------------------------------------------
(* Bounds *)

\* Number of entries the upstream lists in each capability section.
MaxEntries == 2

\* Longest raw body, in bytes, of a binary (non-text, non-JSON) response.
MaxBytes == 3

\* Most slashes at the end of a base URL and at the start of a relative path.
MaxSlashes == 2

-----------------------------------------------------------------------------
(* JavaScript values *)

Undefined == [t |-> "undefined"]
Null == [t |-> "null"]
Bool(b) == [t |-> "bool", b |-> b]
Num(n) == [t |-> "num", n |-> n]
Str(s) == [t |-> "str", s |-> s]
Arr(s) == [t |-> "arr", a |-> s]
Obj(s) == [t |-> "obj", o |-> s]
KV(k, x) == [k |-> k, v |-> x]

\* Array.isArray(x)
IsArray(x) == x.t = "arr"

\* typeof x === "object" && x !== null, for a value that is not an array
IsPlainObject(x) == x.t = "obj"

\* typeof x === "object": true of null, arrays and objects
TypeofObject(x) == x.t \in {"null", "arr", "obj"}

\* JavaScript truthiness
Truthy(x) ==
    CASE x.t = "undefined" -> FALSE
      [] x.t = "null" -> FALSE
      [] x.t = "bool" -> x.b
      [] x.t = "num" -> x.n # 0
      [] x.t = "str" -> x.s # ""
      [] OTHER -> TRUE

\* key in obj (own property)
Has(o, k) == o.t = "obj" /\ \E i \in 1..Len(o.o) : o.o[i].k = k

\* obj[key]: undefined when the property is absent (or o is no object)
Get(o, k) ==
    IF Has(o, k)
    THEN o.o[CHOOSE i \in 1..Len(o.o) : o.o[i].k = k].v
    ELSE Undefined

\* obj[key] = x: an existing property keeps its position, a new one is appended
Set(o, k, x) ==
    IF Has(o, k)
    THEN Obj([i \in 1..Len(o.o) |-> IF o.o[i].k = k THEN KV(k, x) ELSE o.o[i]])
    ELSE Obj(Append(o.o, KV(k, x)))

\* a ?? b
Coalesce(a, b) == IF a.t \in {"undefined", "null"} THEN b ELSE a

-----------------------------------------------------------------------------
(* Strings *)

\* s.includes(p)
Includes(s, p) ==
    \E i \in 1..(Len(s) - Len(p) + 1) : SubSeq(s, i, i + Len(p) - 1) = p

\* s.startsWith(p)
StartsWith(s, p) == Len(s) >= Len(p) /\ SubSeq(s, 1, Len(p)) = p

\* s.replace(/\/+$/, "")
RECURSIVE StripTrailingSlashes(_)
StripTrailingSlashes(s) ==
    IF Len(s) > 0 /\ SubSeq(s, Len(s), Len(s)) = "/"
    THEN StripTrailingSlashes(SubSeq(s, 1, Len(s) - 1))
    ELSE s

\* s.replace(/^\/+/, "")
RECURSIVE StripLeadingSlashes(_)
StripLeadingSlashes(s) ==
    IF Len(s) > 0 /\ SubSeq(s, 1, 1) = "/"
    THEN StripLeadingSlashes(SubSeq(s, 2, Len(s)))
    ELSE s

\* Variant of combineURLs that joins with a slash even when the relative URL
\* is empty.
combineURLsAlwaysJoining(baseURL, relativeURL) ==
    StripTrailingSlashes(baseURL) \o "/" \o StripLeadingSlashes(relativeURL)

\* combineURLs(baseURL, relativeURL)
combineURLs(baseURL, relativeURL) ==
    IF relativeURL # ""
    THEN StripTrailingSlashes(baseURL) \o "/" \o StripLeadingSlashes(relativeURL)
    ELSE baseURL

Upper == "ABCDEFGHIJKLMNOPQRSTUVWXYZ"
Lower == "abcdefghijklmnopqrstuvwxyz"

\* The lower-case form of a one-character string.
LowerChar(c) ==
    IF \E i \in 1..Len(Upper) : SubSeq(Upper, i, i) = c
    THEN LET i == CHOOSE i \in 1..Len(Upper) : SubSeq(Upper, i, i) = c
         IN SubSeq(Lower, i, i)
    ELSE c

\* s.toLowerCase(), on ASCII
\* The concatenation of f(c) over the characters c of s, in order (split in
\* halves, so that the recursion stays shallow on long texts).
RECURSIVE MapChars(_, _)
MapChars(f(_), s) ==
    IF Len(s) = 0 THEN ""
    ELSE IF Len(s) = 1 THEN f(s)
    ELSE MapChars(f, SubSeq(s, 1, Len(s) \div 2))
         \o MapChars(f, SubSeq(s, (Len(s) \div 2) + 1, Len(s)))

\* s.toLowerCase(), on ASCII
ToLowerCase(s) == MapChars(LowerChar, s)

-----------------------------------------------------------------------------
(* Bytes and text *)

\* The printable ASCII characters of code 32 (space) to 95 (underscore) and of
\* code 97 (a) to 126 (tilde), in code order. (Code 96, the backquote, cannot
\* be written in a TLA+ string; the model sends no text holding it.)
AsciiLow == " !\"#$%&'()" \o "*+,-./0123456789:;<=>?@ABCDEFGHIJKLMNOPQRSTUVWXYZ[\\]^_"
AsciiHigh == "abcdefghijklmnopqrstuvwxyz{|}~"

\* c.charCodeAt(0) of a one-character printable string
CharCode(c) ==
    IF \E i \in 1..Len(AsciiLow) : SubSeq(AsciiLow, i, i) = c
    THEN 31 + (CHOOSE i \in 1..Len(AsciiLow) : SubSeq(AsciiLow, i, i) = c)
    ELSE 96 + (CHOOSE i \in 1..Len(AsciiHigh) : SubSeq(AsciiHigh, i, i) = c)

\* String.fromCharCode(n) of a byte; a byte outside the table has no character
\* of its own here and decodes to "?" (standing for U+FFFD).
FromCharCode(n) ==
    CASE n \in 32..95 -> SubSeq(AsciiLow, n - 31, n - 31)
      [] n \in 97..126 -> SubSeq(AsciiHigh, n - 96, n - 96)
      [] OTHER -> "?"

\* The bytes a server sends for the text s (UTF-8 of ASCII text).
Utf8Encode(s) == [i \in 1..Len(s) |-> CharCode(SubSeq(s, i, i))]

\* Response.text(): UTF-8 decoding of the body bytes.
RECURSIVE Utf8Decode(_)
Utf8Decode(b) ==
    IF Len(b) = 0 THEN ""
    ELSE IF Len(b) = 1 THEN FromCharCode(b[1])
    ELSE Utf8Decode(SubSeq(b, 1, Len(b) \div 2))
         \o Utf8Decode(SubSeq(b, (Len(b) \div 2) + 1, Len(b)))

Base64Alphabet == "ABCDEFGHIJKLMNOPQRSTUVWXYZabcdefghijklmnopqrstuvwxyz0123456789+/"

Base64Char(n) == SubSeq(Base64Alphabet, n + 1, n + 1)

\* Buffer.from(bytes).toString("base64")
RECURSIVE Base64(_)
Base64(b) ==
    CASE Len(b) = 0 -> ""
      [] Len(b) = 1 ->
            Base64Char(b[1] \div 4) \o Base64Char((b[1] % 4) * 16) \o "=="
      [] Len(b) = 2 ->
            Base64Char(b[1] \div 4) \o Base64Char((b[1] % 4) * 16 + b[2] \div 16)
            \o Base64Char((b[2] % 16) * 4) \o "="
      [] Len(b) = 3 ->
            Base64Char(b[1] \div 4) \o Base64Char((b[1] % 4) * 16 + b[2] \div 16)
            \o Base64Char((b[2] % 16) * 4 + b[3] \div 64) \o Base64Char(b[3] % 64)
      [] OTHER ->
            LET cut == 3 * (((Len(b) + 2) \div 3) \div 2)
            IN Base64(SubSeq(b, 1, cut)) \o Base64(SubSeq(b, cut + 1, Len(b)))

-----------------------------------------------------------------------------
(* JSON text *)

\* The body of a JSON string literal: the double quote and the backslash are escaped.
JsonEscapeChar(c) == IF c = "\"" THEN "\\\"" ELSE IF c = "\\" THEN "\\\\" ELSE c

JsonEscape(s) == MapChars(JsonEscapeChar, s)

JsonQuote(s) == "\"" \o JsonEscape(s) \o "\""

\* JSON.stringify(x) of a value that came out of JSON.parse (so it holds no
\* undefined): compact, object keys in insertion order.
RECURSIVE JSONStringify(_)
RECURSIVE StringifyElems(_)
RECURSIVE StringifyProps(_)
JSONStringify(x) ==
    CASE x.t = "null" -> "null"
      [] x.t = "bool" -> IF x.b THEN "true" ELSE "false"
      [] x.t = "num" -> ToString(x.n)
      [] x.t = "str" -> JsonQuote(x.s)
      [] x.t = "arr" -> "[" \o StringifyElems(x.a) \o "]"
      [] x.t = "obj" -> "{" \o StringifyProps(x.o) \o "}"
StringifyElems(s) ==
    IF s = <<>> THEN ""
    ELSE JSONStringify(s[1]) \o (IF Len(s) > 1 THEN "," ELSE "") \o StringifyElems(Tail(s))
StringifyProps(s) ==
    IF s = <<>> THEN ""
    ELSE JsonQuote(s[1].k) \o ":" \o JSONStringify(s[1].v)
         \o (IF Len(s) > 1 THEN "," ELSE "") \o StringifyProps(Tail(s))

-----------------------------------------------------------------------------------------------------------------------------------------------------
(* The JSON documents of the upstream server *)

TextBlock(text) == Obj(<<KV("type", Str("text")), KV("text", Str(text))>>)

\* The JSON documents an upstream endpoint answers with.
JsonValues ==
    { Null, Bool(TRUE), Bool(FALSE), Num(0), Num(123),
      Str(""), Str("just a string"), Str("say \"hi\""),
      Arr(<<>>),
      Arr(<<TextBlock("item1")>>),
      Arr(<<Num(1), Str("x")>>),
      Obj(<<>>),
      Obj(<<KV("message", Str("x"))>>),
      Obj(<<KV("content", Arr(<<TextBlock("data")>>)), KV("isError", Bool(FALSE))>>),
      Obj(<<KV("messages", Arr(<<Obj(<<KV("role", Str("user")),
                                        KV("content", TextBlock("hi"))>>)>>))>>),
      Obj(<<KV("messages", Str("none"))>>),
      Obj(<<KV("contents", Arr(<<>>))>>),
      Obj(<<KV("contents", Arr(<<Obj(<<KV("uri", Str("file://a")),
                                        KV("text", Str("A"))>>)>>))>>) }

\* The four capability sections, in the order initializeServerState fetches them.
SectionOrder == <<"tools", "prompts", "resources", "resourceTemplates">>
Sections == { SectionOrder[i] : i \in 1..Len(SectionOrder) }

\* The i-th entry the upstream lists in a section: odd entries carry an href.
SectionEntry(section, i) ==
    LET id == IF section = "resources" THEN KV("uri", Str("file://r" \o ToString(i)))
              ELSE IF section = "resourceTemplates"
                   THEN KV("uriTemplate", Str("file://{p" \o ToString(i) \o "}"))
              ELSE KV("name", Str(section \o ToString(i)))
        base == IF section \in {"resources", "resourceTemplates"}
                THEN <<id, KV("name", Str("n" \o ToString(i)))>>
                ELSE <<id, KV("description", Str("d" \o ToString(i)))>>
    IN Obj(IF i % 2 = 1 THEN Append(base, KV("href", Str("h" \o ToString(i)))) ELSE base)

SectionListing(section) == Arr([i \in 1..MaxEntries |-> SectionEntry(section, i)])

\* A manifest document; fields maps a section name to the field's value,
\* Undefined standing for an absent field.
ManifestDoc(fields) ==
    Obj(<<KV("name", Str("example")), KV("version", Str("1.0.0"))>>
        \o SelectSeq([i \in 1..Len(SectionOrder) |->
                         KV(SectionOrder[i], fields[SectionOrder[i]])],
                     LAMBDA kv : kv.v # Undefined))

\* The values a manifest may give each section field.
FieldValues(section) ==
    CASE section = "tools" -> {Undefined, Bool(FALSE), Bool(TRUE), Str("custom-tools")}
      [] section = "prompts" -> {Undefined, Str(""), Bool(TRUE), Str("/api/prompts/")}
      [] section = "resources" -> {Undefined, Bool(TRUE), Str("custom-resources")}
      [] section = "resourceTemplates" -> {Undefined, Bool(TRUE)}

FieldValuation ==
    { f \in [Sections -> UNION {FieldValues(x) : x \in Sections}] :
        \A x \in Sections : f[x] \in FieldValues(x) }

AllManifests == { ManifestDoc(f) : f \in FieldValuation }

\* The manifests of the example servers: everything at its default path,
\* custom paths without resource templates, and tools alone.
ExampleManifests ==
    { ManifestDoc([x \in Sections |-> Bool(TRUE)]),
      ManifestDoc([x \in Sections |->
                      IF x = "resourceTemplates" THEN Undefined
                      ELSE CHOOSE v \in FieldValues(x) : v.t = "str" /\ v.s # ""]),
      ManifestDoc([x \in Sections |-> IF x = "tools" THEN Bool(TRUE) ELSE Undefined]) }

\* The body of the server's error answers.
ErrorDoc == Obj(<<KV("message", Str("x"))>>)

\* Every JSON document a server of the model sends.
Documents ==
    JsonValues \cup { SectionListing(x) : x \in Sections } \cup AllManifests \cup {ErrorDoc}

\* The compact JSON text of each document, and the document of each text.
ParseTable ==
    [text \in { JSONStringify(j) : j \in Documents } |->
        CHOOSE j \in Documents : JSONStringify(j) = text]

\* JSON.parse(text): the document whose JSON text this is; every other text
\* of the model is not JSON and makes the parse throw (ok = FALSE).
JSONParse(text) ==
    IF text \in DOMAIN ParseTable
    THEN [ok |-> TRUE, v |-> ParseTable[text]]
    ELSE [ok |-> FALSE, v |-> Undefined]

-----
(* The upstream server's responses *)

\* The first eight bytes of a PNG file, repeated.
PngByte(i) == <<137, 80, 78, 71, 13, 10, 26, 10>>[((i - 1) % 8) + 1]

\* A response body is a sequence of bytes. A body of ASCII text is written by
\* its text (its bytes are the character codes), any other body by its bytes.
AsciiBody(text) == [enc |-> "ascii", text |-> text]
BinaryBody(bytes) == [enc |-> "bytes", bytes |-> bytes]

\* Binary bodies: the empty body and each prefix of the PNG bytes.
BinaryBodies == { BinaryBody([i \in 1..n |-> PngByte(i)]) : n \in 0..MaxBytes }

\* Text bodies that are not JSON.
TextBodies == { AsciiBody("Hello"), AsciiBody("<a/>") }

Bodies ==
    { AsciiBody(JSONStringify(j)) : j \in JsonValues } \cup TextBodies \cup BinaryBodies

\* Values of the Content-Type response header; Null is the absent header.
ContentTypes ==
    { Null, Str(""),
      Str("text/plain"), Str("text/plain; charset=utf-8"), Str("Text/Plain; charset=utf-8"),
      Str("text/html"),
      Str("application/json"), Str("application/json; charset=utf-8"), Str("Application/JSON"),
      Str("application/xml"), Str("application/octet-stream"),
      Str("image/png"), Str("Image/PNG"), Str("x-image/png"),
      Str("application/json; from=text/plain"), Str("image/svg+xml; as=application/json"),
      Str("image/x; as=text/plain") }

Statuses == {200, 401, 403, 404, 500}

\* The responses the dispatchers are run against: every status, with the
\* content types and bodies that tell the dispatchers' branches apart.
DispatchContentTypes ==
    { Null, Str("text/plain"), Str("Text/Plain; charset=utf-8"), Str("text/html"),
      Str("application/json"), Str("application/json; charset=utf-8"),
      Str("application/octet-stream"), Str("image/png") }

DispatchBodies ==
    { AsciiBody(JSONStringify(j)) :
        j \in { Null, Bool(TRUE), Num(123), Str("just a string"),
                Arr(<<TextBlock("item1")>>),
                Obj(<<KV("message", Str("x"))>>),
                Obj(<<KV("content", Arr(<<TextBlock("data")>>)), KV("isError", Bool(FALSE))>>),
                Obj(<<KV("messages", Arr(<<Obj(<<KV("role", Str("user")),
                                                  KV("content", TextBlock("hi"))>>)>>))>>),
                Obj(<<KV("messages", Str("none"))>>),
                Obj(<<KV("contents", Arr(<<>>))>>) } }
    \cup { AsciiBody("Hello"), BinaryBody(<<>>), BinaryBody([i \in 1..MaxBytes |-> PngByte(i)]) }

StatusText(status) ==
    CASE status = 200 -> "OK"
      [] status = 401 -> "Unauthorized"
      [] status = 403 -> "Forbidden"
      [] status = 404 -> "Not Found"
      [] status = 500 -> "Internal Server Error"

Response(status, contentType, body) ==
    [status |-> status, statusText |-> StatusText(status),
     contentType |-> contentType, body |-> body]

\* The responses the transcoders are run on (they do not read the status).
Responses ==
    { Response(st, ct, b) : st \in {200, 500}, ct \in ContentTypes, b \in Bodies }

DispatchResponses ==
    { Response(st, ct, b) : st \in Statuses, ct \in DispatchContentTypes, b \in DispatchBodies }

\* res.ok
ResOk(res) == res.status \in 200..299

\* res.headers.get("Content-Type") ?? ""
ContentTypeOf(res) == Coalesce(res.contentType, Str("")).s

\* await res.text(): the body decoded as UTF-8
ResText(res) == IF res.body.enc = "ascii" THEN res.body.text ELSE Utf8Decode(res.body.bytes)

\* await res.json(): the parsed body text, or a thrown SyntaxError (ok = FALSE)
ResJson(res) == JSONParse(ResText(res))

\* await res.arrayBuffer(): the bytes of the body
ResArrayBuffer(res) ==
    IF res.body.enc = "ascii" THEN Utf8Encode(res.body.text) ELSE res.body.bytes

-----------------------------------------------------------------------------
(* Outcomes of an async function: a resolved value or a thrown error, with  *)
(* the body accessors the invocation has called, in order.                  *)

Resolved(value, reads) == [st |-> "resolved", v |-> value, err |-> "", reads |-> reads]
Rejected(message, reads) == [st |-> "rejected", v |-> Undefined, err |-> message, reads |-> reads]
Pending == [st |-> "pending", v |-> Undefined, err |-> "", reads |-> <<>>]

SyntaxError == "SyntaxError: Unexpected token in JSON"

-----------------------------------------------------------------------------
(* Content transcoders *)

\* makeTextContent(text)
makeTextContent(text) == Obj(<<KV("content", Arr(<<TextBlock(text)>>))>>)

\* Variant of isTextContent that does not count application/xml as text.
isTextContentWithoutXml(contentType) ==
    \/ Includes(contentType, "text/")
    \/ Includes(contentType, "application/json")

\* isTextContent(contentType)
isTextContent(contentType) ==
    \/ Includes(contentType, "text/")
    \/ Includes(contentType, "application/json")
    \/ Includes(contentType, "application/xml")

\* Variant of JsonToContent that stringifies every primitive, strings included.
JsonToContentQuoting(json) ==
    IF IsArray(json) THEN Obj(<<KV("content", json)>>)
    ELSE IF TypeofObject(json) /\ json # Null THEN json
    ELSE makeTextContent(JSONStringify(json))

\* The application/json branch of toMCPContent, on the parsed body.
JsonToContent(json) ==
    IF IsArray(json) THEN Obj(<<KV("content", json)>>)
    ELSE IF TypeofObject(json) /\ json # Null THEN json
    ELSE makeTextContent(IF json.t = "str" THEN json.s ELSE JSONStringify(json))

\* The image branch of toMCPContent.
ImageContent(contentType, bytes) ==
    Obj(<<KV("content",
             Arr(<<Obj(<<KV("type", Str("image")),
                         KV("mimeType", Str(contentType)),
                         KV("data", Str(Base64(bytes)))>>)>>))>>)

UnsupportedContentType(contentType) ==
    "Unsupported or unknown content type \"" \o contentType \o "\"."

\* Variant of toMCPContent that tries the application/json rule before text/plain.
toMCPContentJsonFirst(res) ==
    LET contentType == ContentTypeOf(res) IN
    IF Includes(contentType, "application/json")
    THEN LET parsed == ResJson(res) IN
         IF parsed.ok
         THEN Resolved(JsonToContent(parsed.v), <<"json">>)
         ELSE Rejected(SyntaxError, <<"json">>)
    ELSE IF Includes(contentType, "text/plain")
    THEN Resolved(makeTextContent(ResText(res)), <<"text">>)
    ELSE IF StartsWith(contentType, "image/")
    THEN Resolved(ImageContent(contentType, ResArrayBuffer(res)), <<"arrayBuffer">>)
    ELSE Rejected(UnsupportedContentType(contentType), <<>>)

\* toMCPContent(res)
toMCPContent(res) ==
    LET contentType == ContentTypeOf(res) IN
    IF Includes(contentType, "text/plain")
    THEN Resolved(makeTextContent(ResText(res)), <<"text">>)
    ELSE IF Includes(contentType, "application/json")
    THEN LET parsed == ResJson(res) IN
         IF parsed.ok
         THEN Resolved(JsonToContent(parsed.v), <<"json">>)
         ELSE Rejected(SyntaxError, <<"json">>)
    ELSE IF StartsWith(contentType, "image/")
    THEN Resolved(ImageContent(contentType, ResArrayBuffer(res)), <<"arrayBuffer">>)
    ELSE Rejected(UnsupportedContentType(contentType), <<>>)

\* toMCPResourceContent(res, uri)
toMCPResourceContent(res, uri) ==
    LET contentType == ContentTypeOf(res) IN
    IF isTextContent(contentType)
    THEN Resolved(Obj(<<KV("uri", Str(uri)), KV("mimeType", Str(contentType)),
                        KV("text", Str(ResText(res)))>>), <<"text">>)
    ELSE Resolved(Obj(<<KV("uri", Str(uri)),
                        KV("mimeType", Str(IF contentType # "" THEN contentType
                                           ELSE "application/octet-stream")),
                        KV("blob", Str(Base64(ResArrayBuffer(res))))>>), <<"arrayBuffer">>)

-----------------------------------------------------------------------------
(* HTTP requests, and the upstream server's answers to initialization *)

Request(method, url, headers, body) ==
    [method |-> method, url |-> url, headers |-> headers, body |-> body]

\* An answer of the HTTP collaborator: a response, or a thrown error
\* (a network failure; res is then unused).
Answer(res) == [kind |-> "response", res |-> res]
NoResponse == [status |-> 0, statusText |-> "", contentType |-> Null, body |-> BinaryBody(<<>>)]
Throws == [kind |-> "throws", res |-> NoResponse]
FetchFailed == "TypeError: fetch failed"

JsonResponse(status, json) ==
    Response(status, Str("application/json"), AsciiBody(JSONStringify(json)))

\* What the server may answer at a section's endpoint.
SectionAnswers(section) ==
    { Answer(JsonResponse(200, SectionListing(section))),
      Answer(Response(404, Str("text/plain"), AsciiBody("Hello"))),
      Throws }

\* The server has no endpoint for a section its manifest does not declare.
NoEndpoint == Answer(Response(404, Str("text/plain"), AsciiBody("Hello")))

ManifestAnswers(docs) ==
    { Answer(JsonResponse(200, m)) : m \in docs }
    \cup { Answer(JsonResponse(500, ErrorDoc)),
           Answer(Response(200, Str("text/plain"), AsciiBody("Hello"))),
           Throws }

\* The section fields of the manifest document an answer carries (none when
\* the answer carries no manifest).
DeclaredBy(answer, section) ==
    /\ answer.kind = "response"
    /\ ResJson(answer.res).ok
    /\ Truthy(Get(ResJson(answer.res).v, section))

\* The answers a server with manifest answer m may give at section x.
EndpointAnswers(m, x) == IF DeclaredBy(m, x) THEN SectionAnswers(x) ELSE {NoEndpoint}

\* Every server: a manifest answer, and an answer at each declared section.
Upstreams(docs) ==
    UNION { { [manifest |-> m, tools |-> t, prompts |-> p, resources |-> r,
               resourceTemplates |-> q] :
                 t \in EndpointAnswers(m, "tools"), p \in EndpointAnswers(m, "prompts"),
                 r \in EndpointAnswers(m, "resources"),
                 q \in EndpointAnswers(m, "resourceTemplates") } :
            m \in ManifestAnswers(docs) }

BaseUrl == "http://localhost:3000"

\* The config objects a caller passes: with and without a header set.
Configs ==
    { Obj(<<KV("baseUrl", Str(BaseUrl))>>),
      Obj(<<KV("baseUrl", Str(BaseUrl)),
            KV("headers", Obj(<<KV("Authorization", Str("Bearer test"))>>))>>) }

-----------------------------------------------------------------------------
(* initializeServerState *)

\* A fetchManifestSection promise: st is "idle" before the call, then
\* "pending", "fulfilled" (out: the contribution object) or "rejected".
IdleFetch == [st |-> "idle", url |-> "", out |-> Pending]

\* Variant of SectionPath whose default path is the section name for every section.
SectionPathByName(sectionName, manifestValue) ==
    IF manifestValue.t = "str" THEN manifestValue.s ELSE sectionName

\* The relative path fetchManifestSection resolves for a truthy manifest value.
SectionPath(sectionName, manifestValue) ==
    IF manifestValue.t = "str" THEN manifestValue.s
    ELSE IF sectionName = "resourceTemplates" THEN "resource_templates"
    ELSE sectionName

\* Variant of StartFetch that skips a section only when its manifest field is
\* absent, and fetches one whose field is false or empty at the default path.
StartFetchUnlessAbsent(baseUrl, sectionName, manifestValue) ==
    IF manifestValue = Undefined
    THEN [st |-> "fulfilled", url |-> "", out |-> Resolved(Obj(<<>>), <<>>)]
    ELSE [st |-> "pending",
          url |-> combineURLs(baseUrl,
                              IF Truthy(manifestValue)
                              THEN SectionPath(sectionName, manifestValue)
                              ELSE SectionPath(sectionName, Bool(TRUE))),
          out |-> Pending]

\* fetchManifestSection up to its first await: a falsy manifest value returns
\* {} at once, a truthy one issues the GET.
StartFetch(baseUrl, sectionName, manifestValue) ==
    IF ~Truthy(manifestValue)
    THEN [st |-> "fulfilled", url |-> "", out |-> Resolved(Obj(<<>>), <<>>)]
    ELSE [st |-> "pending",
          url |-> combineURLs(baseUrl, SectionPath(sectionName, manifestValue)),
          out |-> Pending]

\* Variant of SectionFetchFailed that does not say which section failed.
SectionFetchFailedUnnamed(sectionName, res) ==
    "Failed to fetch section: " \o ToString(res.status) \o " " \o res.statusText

SectionFetchFailed(sectionName, res) ==
    "Failed to fetch " \o sectionName \o ": " \o ToString(res.status) \o " " \o res.statusText

\* Variant of Contribution that stores every section under the same two keys.
ContributionUnderSharedKeys(sectionName, json, url) ==
    Obj(<<KV("entries", json), KV("entriesUrl", Str(url))>>)

\* Variant of Contribution that records the listing without its URL.
ContributionWithoutUrl(sectionName, json, url) == Obj(<<KV(sectionName, json)>>)

\* The contribution of a fetched section: {[sectionName]: json, [sectionName + "Url"]: url}
Contribution(sectionName, json, url) ==
    Obj(<<KV(sectionName, json), KV(sectionName \o "Url", Str(url))>>)

\* fetchManifestSection after its GET has been answered.
FinishFetch(sectionName, fetch, answer) ==
    IF answer.kind = "throws"
    THEN [fetch EXCEPT !.st = "rejected", !.out = Rejected(FetchFailed, <<>>)]
    ELSE IF ~ResOk(answer.res)
    THEN [fetch EXCEPT !.st = "rejected",
                       !.out = Rejected(SectionFetchFailed(sectionName, answer.res), <<>>)]
    ELSE LET parsed == ResJson(answer.res) IN
         IF ~parsed.ok
         THEN [fetch EXCEPT !.st = "rejected", !.out = Rejected(SyntaxError, <<"json">>)]
         ELSE [fetch EXCEPT !.st = "fulfilled",
                            !.out = Resolved(Contribution(sectionName, parsed.v, fetch.url),
                                             <<"json">>)]

\* Object.assign(target, source)
RECURSIVE AssignProps(_, _)
AssignProps(target, props) ==
    IF props = <<>> THEN target
    ELSE AssignProps(Set(target, props[1].k, props[1].v), Tail(props))

\* { config, manifest, ...Object.assign({}, ...sections) }
RECURSIVE AssignAll(_, _)
AssignAll(target, sources) ==
    IF sources = <<>> THEN target
    ELSE AssignAll(AssignProps(target, sources[1].o), Tail(sources))

AssembleState(cfg, mf, sections) ==
    AssignProps(Obj(<<KV("config", cfg), KV("manifest", mf)>>),
                AssignAll(Obj(<<>>), sections).o)

\* Variant of ManifestFetchFailed that reports the failure without the
\* status and status text.
ManifestFetchFailedBare(res) == "Failed to fetch manifest"

ManifestFetchFailed(res) ==
    "Failed to fetch manifest: " \o ToString(res.status) \o " " \o res.statusText

\* Variant of PromiseAll that waits for every promise to settle and resolves
\* with whatever was fulfilled, a failed section contributing nothing.
PromiseAllSettled(current, cfg, mf, fs, settledNow) ==
    IF current.st # "pending" THEN current
    ELSE IF \A x \in Sections : fs[x].st \in {"fulfilled", "rejected"}
    THEN Resolved(AssembleState(cfg, mf,
                                [i \in 1..Len(SectionOrder) |->
                                    IF fs[SectionOrder[i]].st = "fulfilled"
                                    THEN fs[SectionOrder[i]].out.v
                                    ELSE Obj(<<>>)]),
                  <<>>)
    ELSE current

\* Promise.all over the four section promises, as seen when a promise settles:
\* it rejects with the first rejection, resolves once all are fulfilled and
\* stays as it is otherwise (later rejections are dropped).
PromiseAll(current, cfg, mf, fs, settledNow) ==
    IF current.st # "pending" THEN current
    ELSE IF settledNow # "" /\ fs[settledNow].st = "rejected"
    THEN Rejected(fs[settledNow].out.err, <<>>)
    ELSE IF \A x \in Sections : fs[x].st = "fulfilled"
    THEN Resolved(AssembleState(cfg, mf,
                                [i \in 1..Len(SectionOrder) |-> fs[SectionOrder[i]].out.v]),
                  <<>>)
    ELSE current

\* The caller invokes initializeServerState: the manifest GET is issued.
Initialize ==
    /\ initPc = "idle"
    /\ initPc' = "manifest"
    /\ initLog' = Append(initLog,
                         Request("GET", Get(config, "baseUrl").s, Get(config, "headers"),
                                 Undefined))
    /\ UNCHANGED <<config, upstream, manifest, fetches, initResult, call, peer, sample>>

\* The manifest GET is answered: on failure initializeServerState rejects, on
\* success the manifest is parsed and the four fetchManifestSection calls are
\* made, in order, each issuing its GET before the next is called.
ManifestSettles ==
    /\ initPc = "manifest"
    /\ LET answer == upstream["manifest"] IN
       IF answer.kind = "throws" \/ ~ResOk(answer.res) \/ ~ResJson(answer.res).ok
       THEN /\ initResult' =
                  Rejected(IF answer.kind = "throws" THEN FetchFailed
                           ELSE IF ~ResOk(answer.res) THEN ManifestFetchFailed(answer.res)
                           ELSE SyntaxError, <<>>)
            /\ initPc' = "done"
            /\ UNCHANGED <<manifest, fetches, initLog>>
       ELSE LET mf == ResJson(answer.res).v
                baseUrl == Get(config, "baseUrl").s
                fs == [x \in Sections |-> StartFetch(baseUrl, x, Get(mf, x))]
                issued == SelectSeq(SectionOrder, LAMBDA x : fs[x].st = "pending")
            IN /\ manifest' = mf
               /\ fetches' = fs
               /\ initLog' = initLog \o
                     [i \in 1..Len(issued) |->
                         Request("GET", fs[issued[i]].url, Get(config, "headers"), Undefined)]
               /\ initResult' = PromiseAll(initResult, config, mf, fs, "")
               /\ initPc' = IF initResult'.st = "pending" THEN "sections" ELSE "done"
    /\ UNCHANGED <<config, upstream, call, peer, sample>>

\* The GET of section x is answered and its fetchManifestSection settles;
\* Promise.all, and with it initializeServerState, settles if this decides it.
SectionSettles(x) ==
    /\ initPc \in {"sections", "done"}
    /\ fetches[x].st = "pending"
    /\ fetches' = [fetches EXCEPT ![x] = FinishFetch(x, fetches[x], upstream[x])]
    /\ initResult' = PromiseAll(initResult, config, manifest, fetches', x)
    /\ initPc' = IF initResult'.st = "pending" THEN "sections" ELSE "done"
    /\ UNCHANGED <<config, upstream, manifest, initLog, call, peer, sample>>

-----------------------------------------------------------------------------
(* URL query strings *)

HexDigits == "0123456789ABCDEF"

\* The characters application/x-www-form-urlencoded leaves as they are.
FormSafe == "*-._0123456789ABCDEFGHIJKLMNOPQRSTUVWXYZabcdefghijklmnopqrstuvwxyz"

FormEncodeChar(c) ==
    IF \E i \in 1..Len(FormSafe) : SubSeq(FormSafe, i, i) = c THEN c
    ELSE IF c = " " THEN "+"
    ELSE LET n == CharCode(c)
         IN "%" \o SubSeq(HexDigits, (n \div 16) + 1, (n \div 16) + 1)
                \o SubSeq(HexDigits, (n % 16) + 1, (n % 16) + 1)

FormEncode(s) == MapChars(FormEncodeChar, s)

\* String(x)
ToStr(x) ==
    CASE x.t = "str" -> x.s
      [] x.t = "undefined" -> "undefined"
      [] x.t = "obj" -> "[object Object]"
      [] OTHER -> JSONStringify(x)

\* URLSearchParams.toString() of a list of [k, v] pairs of strings
RECURSIVE QueryString(_)
QueryString(params) ==
    IF params = <<>> THEN ""
    ELSE FormEncode(params[1].k) \o "=" \o FormEncode(params[1].v)
         \o (IF Len(params) > 1 THEN "&" ELSE "") \o QueryString(Tail(params))

\* Object.entries(x) of an object or array, each value passed through String
StringEntries(x) ==
    IF x.t = "obj" THEN [i \in 1..Len(x.o) |-> [k |-> x.o[i].k, v |-> ToStr(x.o[i].v)]]
    ELSE IF x.t = "arr" THEN [i \in 1..Len(x.a) |-> [k |-> ToString(i - 1), v |-> ToStr(x.a[i])]]
    ELSE <<>>

-----------------------------------------------------------------------------
(* Request dispatchers *)

\* Variant of Find that accepts an entry whose identity merely starts with the
\* requested value.
FindByPrefix(array, key, value) ==
    IF \E i \in 1..Len(array.a) : StartsWith(Get(array.a[i], key).s, value)
    THEN array.a[CHOOSE i \in 1..Len(array.a) :
                    /\ StartsWith(Get(array.a[i], key).s, value)
                    /\ \A j \in 1..(i - 1) : ~StartsWith(Get(array.a[j], key).s, value)]
    ELSE Undefined

\* array.find((e) => e[key] === value), undefined when nothing matches
Find(array, key, value) ==
    IF \E i \in 1..Len(array.a) : Get(array.a[i], key) = Str(value)
    THEN array.a[CHOOSE i \in 1..Len(array.a) :
                    /\ Get(array.a[i], key) = Str(value)
                    /\ \A j \in 1..(i - 1) : Get(array.a[j], key) # Str(value)]
    ELSE Undefined

\* Variant of handleHttpError that lets 403 through to the general status handling.
handleHttpErrorOnly401(res) == IF res.status = 401 THEN "Unauthorized" ELSE ""

\* handleHttpError(res): the message of the error it throws, "" when it returns
handleHttpError(res) ==
    IF res.status = 401 THEN "Unauthorized"
    ELSE IF res.status = 403 THEN "Forbidden"
    ELSE ""

UnknownTool(toolName) == "Unknown tool \"" \o toolName \o "\""
UnknownPrompt(promptName) == "Unknown prompt \"" \o promptName \o "\""
UnknownResource(resourceUri) == "Unknown resource \"" \o resourceUri \o "\""

\* Variant of CallToolRequest that always routes by the tool name.
CallToolRequestByName(state, tool, toolArguments) ==
    Request("POST", combineURLs(Get(state, "toolsUrl").s, Get(tool, "name").s),
            Get(state, "headers"), toolArguments)

\* The request mcpCallTool issues for a tool it has found.
CallToolRequest(state, tool, toolArguments) ==
    LET toolPath == Coalesce(Get(tool, "href"), Get(tool, "name")).s
        resolvedToolUrl == combineURLs(Get(state, "toolsUrl").s, toolPath)
    IN Request("POST", resolvedToolUrl, Get(state, "headers"), toolArguments)

\* Variant of CallToolResult that flags the result only when the upstream
\* object carries no isError of its own.
CallToolResultKeepingFlag(res) ==
    IF handleHttpError(res) # "" THEN Rejected(handleHttpError(res), <<>>)
    ELSE LET content == toMCPContent(res) IN
         IF content.st = "rejected" THEN content
         ELSE IF ~ResOk(res) /\ ~Has(content.v, "isError")
         THEN Resolved(Set(content.v, "isError", Bool(TRUE)), content.reads)
         ELSE content

\* mcpCallTool from the response on.
CallToolResult(res) ==
    IF handleHttpError(res) # "" THEN Rejected(handleHttpError(res), <<>>)
    ELSE LET content == toMCPContent(res) IN
         IF content.st = "rejected" THEN content
         ELSE IF ~ResOk(res)
         THEN Resolved(Set(content.v, "isError", Bool(TRUE)), content.reads)
         ELSE content

\* The request mcpGetPrompt issues for a prompt it has found.
GetPromptRequest(state, prompt, promptArguments) ==
    LET promptPath == Coalesce(Get(prompt, "href"), Get(prompt, "name")).s
        basePromptUrl == combineURLs(Get(state, "promptsUrl").s, promptPath)
        queryParams == IF Truthy(promptArguments) /\ TypeofObject(promptArguments)
                       THEN StringEntries(promptArguments)
                       ELSE <<>>
        resolvedPromptUrl == IF QueryString(queryParams) # ""
                             THEN basePromptUrl \o "?" \o QueryString(queryParams)
                             ELSE basePromptUrl
    IN Request("GET", resolvedPromptUrl, Get(state, "headers"), Undefined)

PromptFetchFailed(promptName, res) ==
    "Failed to get prompt \"" \o promptName \o "\": "
    \o ToString(res.status) \o " " \o res.statusText

UnsupportedPromptContentType(contentType) ==
    "Unsupported content type \"" \o contentType \o "\" for prompt response."

PromptMessage(role, text) ==
    Obj(<<KV("messages",
             Arr(<<Obj(<<KV("role", Str(role)), KV("content", TextBlock(text))>>)>>))>>)

\* Variant of GetPromptResult that transcodes a failed response like a
\* successful one instead of rejecting.
GetPromptResultIgnoringStatus(promptName, res) ==
    IF handleHttpError(res) # "" THEN Rejected(handleHttpError(res), <<>>)
    ELSE LET contentType == ContentTypeOf(res) IN
         IF Includes(contentType, "application/json")
         THEN LET parsed == ResJson(res) IN
              IF ~parsed.ok THEN Rejected(SyntaxError, <<"json">>)
              ELSE IF /\ Truthy(parsed.v) /\ TypeofObject(parsed.v)
                      /\ IsArray(Get(parsed.v, "messages"))
              THEN Resolved(parsed.v, <<"json">>)
              ELSE Resolved(PromptMessage("assistant", JSONStringify(parsed.v)), <<"json">>)
         ELSE IF Includes(contentType, "text/plain")
         THEN Resolved(PromptMessage("user", ResText(res)), <<"text">>)
         ELSE Rejected(UnsupportedPromptContentType(contentType), <<>>)

\* Variant of GetPromptResult that returns as-is every JSON object that has a
\* messages field, whatever the field holds.
GetPromptResultTrustingMessages(promptName, res) ==
    IF handleHttpError(res) # "" THEN Rejected(handleHttpError(res), <<>>)
    ELSE IF ~ResOk(res) THEN Rejected(PromptFetchFailed(promptName, res), <<>>)
    ELSE LET contentType == ContentTypeOf(res) IN
         IF Includes(contentType, "application/json")
         THEN LET parsed == ResJson(res) IN
              IF ~parsed.ok THEN Rejected(SyntaxError, <<"json">>)
              ELSE IF /\ Truthy(parsed.v) /\ TypeofObject(parsed.v)
                      /\ Has(parsed.v, "messages")
              THEN Resolved(parsed.v, <<"json">>)
              ELSE Resolved(PromptMessage("assistant", JSONStringify(parsed.v)), <<"json">>)
         ELSE IF Includes(contentType, "text/plain")
         THEN Resolved(PromptMessage("user", ResText(res)), <<"text">>)
         ELSE Rejected(UnsupportedPromptContentType(contentType), <<>>)

\* mcpGetPrompt from the response on.
GetPromptResult(promptName, res) ==
    IF handleHttpError(res) # "" THEN Rejected(handleHttpError(res), <<>>)
    ELSE IF ~ResOk(res) THEN Rejected(PromptFetchFailed(promptName, res), <<>>)
    ELSE LET contentType == ContentTypeOf(res) IN
         IF Includes(contentType, "application/json")
         THEN LET parsed == ResJson(res) IN
              IF ~parsed.ok THEN Rejected(SyntaxError, <<"json">>)
              ELSE IF /\ Truthy(parsed.v) /\ TypeofObject(parsed.v)
                      /\ IsArray(Get(parsed.v, "messages"))
              THEN Resolved(parsed.v, <<"json">>)
              ELSE Resolved(PromptMessage("assistant", JSONStringify(parsed.v)), <<"json">>)
         ELSE IF Includes(contentType, "text/plain")
         THEN Resolved(PromptMessage("user", ResText(res)), <<"text">>)
         ELSE Rejected(UnsupportedPromptContentType(contentType), <<>>)

\* { uri: resourceUri, ...resourceArguments }
ResourceQuery(resourceUri, resourceArguments) ==
    AssignProps(Obj(<<KV("uri", Str(resourceUri))>>),
                IF resourceArguments.t = "obj" THEN resourceArguments.o ELSE <<>>)

\* Variant of ReadResourceRequest that joins the resource uri as a path
\* segment when the resource has no href.
ReadResourceRequestJoiningUri(state, resource, resourceUri, resourceArguments) ==
    LET queryParams == QueryString(StringEntries(ResourceQuery(resourceUri, resourceArguments)))
        resourcePath == Coalesce(Get(resource, "href"), Get(resource, "uri")).s
    IN Request("GET",
               combineURLs(Get(state, "resourcesUrl").s, resourcePath) \o "?" \o queryParams,
               Get(state, "headers"), Undefined)

\* The request mcpReadResource issues for a resource it has found.
ReadResourceRequest(state, resource, resourceUri, resourceArguments) ==
    LET queryParams == QueryString(StringEntries(ResourceQuery(resourceUri, resourceArguments)))
        resolvedResourceUrl ==
            IF Truthy(Get(resource, "href"))
            THEN combineURLs(Get(state, "resourcesUrl").s, Get(resource, "href").s)
                 \o "?" \o queryParams
            ELSE Get(state, "resourcesUrl").s \o "?" \o queryParams
    IN Request("GET", resolvedResourceUrl, Get(state, "headers"), Undefined)

ResourceFetchFailed(resourceUri, res) ==
    "Failed to read resource \"" \o resourceUri \o "\": "
    \o ToString(res.status) \o " " \o res.statusText

BodyUnusable == "TypeError: Body is unusable"

\* toMCPResourceContent called on a response whose body may have been read
\* already (earlier: the accessors called so far). A fetch Response rejects a
\* second read of its body; a response that buffers its body (reusable) allows it.
ResourceContentAfter(res, uri, earlier, reusable) ==
    LET content == toMCPResourceContent(res, uri) IN
    IF earlier # <<>> /\ ~reusable THEN Rejected(BodyUnusable, earlier \o content.reads)
    ELSE Resolved(Obj(<<KV("contents", Arr(<<content.v>>))>>), earlier \o content.reads)

\* mcpReadResource from the response on.
ReadResourceResult(resourceUri, res, reusable) ==
    IF handleHttpError(res) # "" THEN Rejected(handleHttpError(res), <<>>)
    ELSE IF ~ResOk(res) THEN Rejected(ResourceFetchFailed(resourceUri, res), <<>>)
    ELSE IF Includes(ContentTypeOf(res), "application/json")
    THEN LET parsed == ResJson(res) IN
         IF ~parsed.ok THEN Rejected(SyntaxError, <<"json">>)
         ELSE IF /\ Truthy(parsed.v) /\ TypeofObject(parsed.v)
                 /\ IsArray(Get(parsed.v, "contents"))
         THEN Resolved(parsed.v, <<"json">>)
         ELSE ResourceContentAfter(res, resourceUri, <<"json">>, reusable)
    ELSE ResourceContentAfter(res, resourceUri, <<>>, reusable)

-----------------------------------------------------------------------------
(* Dispatcher invocations *)

IdleCall ==
    [pc |-> "idle", op |-> "none", name |-> "", args |-> Undefined, requests |-> <<>>,
     res |-> NoResponse, reusable |-> FALSE, out |-> Pending]

\* The identities a caller asks for: each one listed in the section of the
\* state, and an unlisted one, the first listed identity cut short by a character.
Identities(state, section, key) ==
    IF Get(state, section).t = "arr"
    THEN LET listed == { Get(Get(state, section).a[i], key).s :
                            i \in 1..Len(Get(state, section).a) }
         IN listed \cup { SubSeq(id, 1, Len(id) - 1) :
                             id \in { Get(Get(state, section).a[i], key).s :
                                         i \in 1..Len(Get(state, section).a) \cap {1} } }
    ELSE {}

ToolArguments == { Obj(<<>>), Obj(<<KV("query", Str("2+2"))>>) }
PromptArguments ==
    { Undefined, Null, Str("topic"), Arr(<<Str("a")>>), Obj(<<>>),
      Obj(<<KV("topic", Str("a b")), KV("n", Num(2))>>) }
ResourceArguments == { Obj(<<>>), Obj(<<KV("page", Num(2)), KV("uri", Str("file://x"))>>) }

\* The handlers toMCPServer registers: a section's handlers exist only when
\* the state holds both the section and its URL.
Registered(state, section) ==
    Truthy(Get(state, section)) /\ Truthy(Get(state, section \o "Url"))

\* An invocation that fails its lookup rejects without a request.
LookupFailed(op, name, args, message) ==
    [IdleCall EXCEPT !.pc = "done", !.op = op, !.name = name, !.args = args,
                     !.out = Rejected(message, <<>>)]

\* An invocation that has issued its request and awaits the response.
Awaiting(op, name, args, request) ==
    [IdleCall EXCEPT !.pc = "awaiting", !.op = op, !.name = name, !.args = args,
                     !.requests = <<request>>]

\* mcpCallTool(httpClient, state, toolName, toolArguments), up to its await
CallTool(toolName, toolArguments) ==
    /\ initResult.st = "resolved"
    /\ call.pc = "idle"
    /\ Registered(initResult.v, "tools")
    /\ LET state == initResult.v
           tool == Find(Get(state, "tools"), "name", toolName)
       IN call' = IF ~Truthy(tool)
                  THEN LookupFailed("callTool", toolName, toolArguments, UnknownTool(toolName))
                  ELSE Awaiting("callTool", toolName, toolArguments,
                                CallToolRequest(state, tool, toolArguments))
    /\ UNCHANGED <<config, upstream, initPc, manifest, fetches, initResult, initLog, peer, sample>>

\* mcpGetPrompt(httpClient, state, promptName, promptArguments), up to its await
GetPrompt(promptName, promptArguments) ==
    /\ initResult.st = "resolved"
    /\ call.pc = "idle"
    /\ Registered(initResult.v, "prompts")
    /\ LET state == initResult.v
           prompt == Find(Get(state, "prompts"), "name", promptName)
       IN call' = IF ~Truthy(prompt)
                  THEN LookupFailed("getPrompt", promptName, promptArguments,
                                    UnknownPrompt(promptName))
                  ELSE Awaiting("getPrompt", promptName, promptArguments,
                                GetPromptRequest(state, prompt, promptArguments))
    /\ UNCHANGED <<config, upstream, initPc, manifest, fetches, initResult, initLog, peer, sample>>

\* mcpReadResource(httpClient, state, resourceUri, resourceArguments), up to its await
ReadResource(resourceUri, resourceArguments) ==
    /\ initResult.st = "resolved"
    /\ call.pc = "idle"
    /\ Registered(initResult.v, "resources")
    /\ LET state == initResult.v
           resource == Find(Get(state, "resources"), "uri", resourceUri)
       IN call' = IF ~Truthy(resource)
                  THEN LookupFailed("readResource", resourceUri, resourceArguments,
                                    UnknownResource(resourceUri))
                  ELSE Awaiting("readResource", resourceUri, resourceArguments,
                                ReadResourceRequest(state, resource, resourceUri,
                                                    resourceArguments))
    /\ UNCHANGED <<config, upstream, initPc, manifest, fetches, initResult, initLog, peer, sample>>

\* Variant of StateAfterCallTool that sets the isError flag on the tool entry
\* of the state as well.
StateAfterCallToolFlaggingTool(state, toolName, res) ==
    IF handleHttpError(res) = "" /\ ~ResOk(res)
    THEN Set(state, "tools",
             Arr([i \in 1..Len(Get(state, "tools").a) |->
                     IF Get(Get(state, "tools").a[i], "name") = Str(toolName)
                     THEN Set(Get(state, "tools").a[i], "isError", Bool(TRUE))
                     ELSE Get(state, "tools").a[i]]))
    ELSE state

\* The state after mcpCallTool has handled res: its only assignment is to the
\* content object it returns, so the state and its tool entries are as before.
StateAfterCallTool(state, toolName, res) == state

\* The tool endpoint answers with res and mcpCallTool runs to its end.
CallToolSettles(res) ==
    /\ call.pc = "awaiting" /\ call.op = "callTool"
    /\ call' = [call EXCEPT !.pc = "done", !.res = res, !.out = CallToolResult(res)]
    /\ initResult' = [initResult EXCEPT !.v = StateAfterCallTool(initResult.v, call.name, res)]
    /\ UNCHANGED <<config, upstream, initPc, manifest, fetches, initLog, peer, sample>>

\* The prompt endpoint answers with res and mcpGetPrompt runs to its end.
GetPromptSettles(res) ==
    /\ call.pc = "awaiting" /\ call.op = "getPrompt"
    /\ call' = [call EXCEPT !.pc = "done", !.res = res,
                            !.out = GetPromptResult(call.name, res)]
    /\ UNCHANGED <<config, upstream, initPc, manifest, fetches, initResult, initLog, peer, sample>>

\* The resource endpoint answers with res and mcpReadResource runs to its end.
ReadResourceSettles(res, reusable) ==
    /\ call.pc = "awaiting" /\ call.op = "readResource"
    /\ call' = [call EXCEPT !.pc = "done", !.res = res, !.reusable = reusable,
                            !.out = ReadResourceResult(call.name, res, reusable)]
    /\ UNCHANGED <<config, upstream, initPc, manifest, fetches, initResult, initLog, peer, sample>>

\* Variant of RequestFails in which the dispatcher issues its request again
\* when the HTTP collaborator throws.
RequestFailsAndIsRetried ==
    /\ call.pc = "awaiting"
    /\ Len(call.requests) < 3
    /\ call' = [call EXCEPT !.requests = Append(@, @[1])]
    /\ UNCHANGED <<config, upstream, initPc, manifest, fetches, initResult, initLog, peer, sample>>

\* The HTTP collaborator throws instead of answering: the invocation rejects
\* with the collaborator's error.
RequestFails ==
    /\ call.pc = "awaiting"
    /\ call' = [call EXCEPT !.pc = "done", !.out = Rejected(FetchFailed, <<>>)]
    /\ UNCHANGED <<config, upstream, initPc, manifest, fetches, initResult, initLog, peer, sample>>

\* The caller has taken the outcome of the invocation; the next may start.
Return ==
    /\ call.pc = "done"
    /\ call' = IdleCall
    /\ UNCHANGED <<config, upstream, initPc, manifest, fetches, initResult, initLog, peer, sample>>

-----------------------------------------------------------------------------
(* List operations *)

\* The fields each list operation destructures from an entry of its section.
WireFields(section) ==
    CASE section = "tools" -> <<"name", "description", "inputSchema">>
      [] section = "prompts" -> <<"name", "description", "arguments">>
      [] section = "resources" -> <<"uri", "name", "description", "mimeType">>
      [] section = "resourceTemplates" -> <<"uriTemplate", "name", "description", "mimeType">>

\* Variant of ListEntry that copies the whole entry of the state.
ListEntryWhole(section, entry) == entry

\* The callback of map: an object of the destructured fields, a field the
\* entry lacks being undefined.
ListEntry(section, entry) ==
    Obj([i \in 1..Len(WireFields(section)) |->
            KV(WireFields(section)[i], Get(entry, WireFields(section)[i]))])

\* mcpListTools / mcpListPrompts / mcpListResources / mcpListResourceTemplates
mcpList(section, state) ==
    Obj(<<KV(section,
             Arr([i \in 1..Len(Get(state, section).a) |->
                     ListEntry(section, Get(state, section).a[i])]))>>)

\* A list operation is invoked on the state and returns.
List(section) ==
    /\ initResult.st = "resolved"
    /\ call.pc = "idle"
    /\ IsArray(Get(initResult.v, section))
    /\ call' = [IdleCall EXCEPT !.pc = "done", !.op = "list", !.name = section,
                                !.out = Resolved(mcpList(section, initResult.v), <<>>)]
    /\ UNCHANGED <<config, upstream, initPc, manifest, fetches, initResult, initLog, peer, sample>>

-----------------------------------------------------------------------------
(* Transcoder invocations on their own *)

IdleSample == [pc |-> "idle", fn |-> "none", res |-> NoResponse, uri |-> "", out |-> Pending]

SampleUris == {"file://r1", ""}

\* toMCPContent(res)
ApplyToMCPContent ==
    /\ sample.pc = "input" /\ sample.fn = "toMCPContent"
    /\ sample' = [sample EXCEPT !.pc = "done", !.out = toMCPContent(sample.res)]
    /\ UNCHANGED <<config, upstream, initPc, manifest, fetches, initResult, initLog, call, peer>>

\* toMCPResourceContent(res, uri)
ApplyToMCPResourceContent ==
    /\ sample.pc = "input" /\ sample.fn = "toMCPResourceContent"
    /\ sample' = [sample EXCEPT !.pc = "done",
                                !.out = toMCPResourceContent(sample.res, sample.uri)]
    /\ UNCHANGED <<config, upstream, initPc, manifest, fetches, initResult, initLog, call, peer>>

-----------------------------------------------------------------------------
(* Specifications *)

InitWith(docs) ==
    /\ config \in Configs
    /\ upstream \in Upstreams(docs)
    /\ initPc = "idle"
    /\ manifest = Undefined
    /\ fetches = [x \in Sections |-> IdleFetch]
    /\ initResult = Pending
    /\ initLog = <<>>
    /\ call = IdleCall
    /\ peer = IdleCall
    /\ sample = IdleSample

InitializeNext ==
    \/ Initialize
    \/ ManifestSettles
    \/ \E x \in Sections : SectionSettles(x)

DispatchNext ==
    \/ \E n \in Identities(initResult.v, "tools", "name"), a \in ToolArguments : CallTool(n, a)
    \/ \E n \in Identities(initResult.v, "prompts", "name"), a \in PromptArguments : GetPrompt(n, a)
    \/ \E u \in Identities(initResult.v, "resources", "uri"), a \in ResourceArguments :
          ReadResource(u, a)
    \/ \E res \in DispatchResponses : CallToolSettles(res)
    \/ \E res \in DispatchResponses : GetPromptSettles(res)
    \/ \E res \in DispatchResponses, reusable \in BOOLEAN : ReadResourceSettles(res, reusable)
    \/ RequestFails
    \/ Return
    \/ \E x \in Sections : List(x)

\* The whole program: one initialization against an example server, then
\* dispatcher invocations against the state it returned.
Init == InitWith(ExampleManifests)
Next == InitializeNext \/ DispatchNext
Spec == Init /\ [][Next]_vars

\* The initializer alone, against every manifest.
InitAll == InitWith(AllManifests)
SpecInitialize == InitAll /\ [][InitializeNext]_vars

\* The transcoders alone, on every response.
InitContent ==
    /\ config \in {CHOOSE c \in Configs : TRUE}
    /\ upstream = [x \in {"manifest"} \cup Sections |-> Throws]
    /\ initPc = "idle"
    /\ manifest = Undefined
    /\ fetches = [x \in Sections |-> IdleFetch]
    /\ initResult = Pending
    /\ initLog = <<>>
    /\ call = IdleCall
    /\ peer = IdleCall
    /\ \E fn \in {"toMCPContent", "toMCPResourceContent"}, res \in Responses, uri \in SampleUris :
          sample = [pc |-> "input", fn |-> fn, res |-> res, uri |-> uri, out |-> Pending]

ContentNext == ApplyToMCPContent \/ ApplyToMCPResourceContent
SpecContent == InitContent /\ [][ContentNext]_vars

-----------------------------------------------------------------------------
(* Properties of initializeServerState (checked under SpecInitialize) *)

\* The server answers the manifest GET with a 2xx response carrying a manifest.
ManifestServed ==
    /\ upstream["manifest"].kind = "response"
    /\ upstream["manifest"].res.status \in 200..299
    /\ upstream["manifest"].res.body.enc = "ascii"
    /\ upstream["manifest"].res.body.text \in DOMAIN ParseTable

\* The manifest document the server serves.
ServedManifest == ParseTable[upstream["manifest"].res.body.text]

\* The manifest the server serves declares section x (its field is truthy).
Declares(x) ==
    /\ ManifestServed
    /\ Get(ServedManifest, x) \notin {Undefined, Null, Bool(FALSE), Num(0), Str("")}

\* The server fails the GET of section x: a non-2xx status, or no answer at all.
SectionFails(x) ==
    \/ upstream[x].kind = "throws"
    \/ upstream[x].res.status \notin 200..299

\* C1: initialization is all-or-nothing. Whenever the fetch of a declared
\* section fails (non-2xx or a thrown error), initializeServerState never hands
\* a state to its caller, not even a partial one, and it has rejected once that
\* fetch has settled; a state is returned only when the manifest GET and the
\* GET of every declared section succeeded.
C1_AllOrNothing ==
    /\ (\E x \in Sections : Declares(x) /\ SectionFails(x))
          => /\ initResult.st # "resolved"
             /\ initResult.v = Undefined
    /\ \A x \in Sections :
          fetches[x].st = "rejected" => initResult.st = "rejected"
    /\ initResult.st = "resolved"
          => /\ ManifestServed
             /\ \A x \in Sections : Declares(x) => ~SectionFails(x)

\* A declared section has failed after another one was fetched, and the caller
\* holds a rejection.
C1_Witness ==
    /\ initResult.st = "rejected"
    /\ \E x, y \in Sections :
          /\ Declares(x) /\ SectionFails(x) /\ fetches[x].st = "rejected"
          /\ fetches[y].st = "fulfilled" /\ fetches[y].out.v # Obj(<<>>)

\* C2: in every state a successful initialization returns, for each of the
\* four sections, the section array is present iff its companion URL is
\* present iff the manifest declared the section with a truthy field.
C2_SectionIffUrlIffDeclared ==
    initResult.st = "resolved" =>
        \A x \in Sections :
            /\ (Has(initResult.v, x) /\ IsArray(Get(initResult.v, x)))
                  <=> (Has(initResult.v, x \o "Url") /\ Get(initResult.v, x \o "Url").t = "str")
            /\ (Has(initResult.v, x) /\ IsArray(Get(initResult.v, x))) <=> Declares(x)

\* A returned state that holds one section and lacks another, whose manifest
\* field is present but falsy.
C2_Witness ==
    /\ initResult.st = "resolved"
    /\ \E x, y \in Sections :
          /\ Has(initResult.v, x) /\ Has(initResult.v, x \o "Url")
          /\ ~Has(initResult.v, y) /\ ~Has(initResult.v, y \o "Url")
          /\ Has(Get(initResult.v, "manifest"), y)

-----------------------------------------------------------------------------
(* Properties of the dispatchers (checked under Spec) *)

\* The invocation has run to its end on a response of the upstream.
Answered(op) == call.pc = "done" /\ call.op = op /\ call.res.status \in Statuses

\* The section of the returned state an operation looks its argument up in,
\* and the field it matches.
SectionOf(op) ==
    CASE op = "callTool" -> "tools" [] op = "getPrompt" -> "prompts" [] op = "readResource" -> "resources"
IdentityKey(op) == IF op = "readResource" THEN "uri" ELSE "name"

\* The identity asked for is one the section lists.
Listed(op, name) ==
    \E i \in 1..Len(Get(initResult.v, SectionOf(op)).a) :
        Get(Get(initResult.v, SectionOf(op)).a[i], IdentityKey(op)) = Str(name)

\* An object without its property k.
Without(o, k) == Obj(SelectSeq(o.o, LAMBDA kv : kv.k # k))

\* C3: mcpCallTool on a known tool whose response is neither 2xx nor 401/403
\* does not reject: whenever toMCPContent can transcode the response, the call
\* resolves to that result with isError set to true, whatever isError the
\* upstream object carried.
C3_ToolFailureIsSoft ==
    (/\ Answered("callTool")
     /\ call.res.status \notin (200..299) \cup {401, 403}
     /\ toMCPContent(call.res).st = "resolved")
    => /\ call.out.st = "resolved"
       /\ Get(call.out.v, "isError") = Bool(TRUE)
       /\ Without(call.out.v, "isError") = Without(toMCPContent(call.res).v, "isError")
       /\ call.out.err = ""

\* A 500 response whose JSON object says isError: false has been flagged as an error.
C3_Witness ==
    /\ Answered("callTool")
    /\ call.res.status = 500
    /\ Get(toMCPContent(call.res).v, "isError") = Bool(FALSE)
    /\ Get(call.out.v, "isError") = Bool(TRUE)

\* C4: in every dispatcher a 401 rejects with Unauthorized and a 403 with
\* Forbidden, before any other status handling and before the body is read:
\* the outcome is the same for every Content-Type and every body.
C4_AuthFailuresFirst ==
    \A op \in {"callTool", "getPrompt", "readResource"} :
        /\ (Answered(op) /\ call.res.status = 401)
              => call.out = [st |-> "rejected", v |-> Undefined,
                             err |-> "Unauthorized", reads |-> <<>>]
        /\ (Answered(op) /\ call.res.status = 403)
              => call.out = [st |-> "rejected", v |-> Undefined,
                             err |-> "Forbidden", reads |-> <<>>]

\* A 403 without a Content-Type header, which toMCPContent alone would refuse
\* as unsupported, has rejected a tool call with Forbidden.
C4_Witness ==
    /\ Answered("callTool")
    /\ call.res.status = 403
    /\ call.res.contentType = Null
    /\ call.out.err = "Forbidden"

\* C5: mcpGetPrompt and mcpReadResource reject on every non-2xx status other
\* than 401/403, with an error naming the prompt or uri, the status and the
\* status text, whatever the Content-Type and body; they never resolve.
C5_FetchFailureIsFatal ==
    \A op \in {"getPrompt", "readResource"} :
        (Answered(op) /\ call.res.status \notin (200..299) \cup {401, 403})
        => /\ call.out.st = "rejected"
           /\ call.out.v = Undefined
           /\ call.out.reads = <<>>
           /\ StartsWith(call.out.err,
                         IF op = "getPrompt" THEN "Failed to get prompt"
                         ELSE "Failed to read resource")
           /\ Includes(call.out.err, "\"" \o call.name \o "\"")
           /\ Includes(call.out.err, ToString(call.res.status) \o " " \o call.res.statusText)

\* A 500 carrying a well-formed prompt result has rejected the prompt request.
C5_Witness ==
    /\ Answered("getPrompt")
    /\ call.res.status = 500
    /\ Includes(ContentTypeOf(call.res), "application/json")
    /\ ResJson(call.res).ok
    /\ IsArray(Get(ResJson(call.res).v, "messages"))
    /\ call.out.st = "rejected"

\* C6: when the requested name or uri matches no entry of the section exactly,
\* the call rejects with Unknown tool / prompt / resource and the HTTP
\* collaborator is never invoked during that call.
C6_UnknownRejectsWithoutRequest ==
    \A op \in {"callTool", "getPrompt", "readResource"} :
        (call.pc # "idle" /\ call.op = op /\ ~Listed(op, call.name))
        => /\ call.pc = "done"
           /\ call.out.st = "rejected"
           /\ call.out.err =
                 (CASE op = "callTool" -> "Unknown tool \""
                    [] op = "getPrompt" -> "Unknown prompt \""
                    [] op = "readResource" -> "Unknown resource \"") \o call.name \o "\""
           /\ call.requests = <<>>
           /\ call.res = NoResponse

\* A resource uri that is a proper prefix of a listed one has been refused.
C6_Witness ==
    /\ call.pc = "done" /\ call.op = "readResource"
    /\ ~Listed("readResource", call.name)
    /\ \E i \in 1..Len(Get(initResult.v, "resources").a) :
          StartsWith(Get(Get(initResult.v, "resources").a[i], "uri").s, call.name)
    /\ call.out.st = "rejected"

\* C7: the header set the caller passed to initializeServerState is carried by
\* every request the dispatchers issue against the returned state, as it is by
\* the manifest and section GETs.
C7_HeadersForwarded ==
    /\ \A i \in 1..Len(initLog) : initLog[i].headers = Get(config, "headers")
    /\ \A i \in 1..Len(call.requests) : call.requests[i].headers = Get(config, "headers")

\* The part of C7 the code keeps: the manifest and section GETs carry the headers.
C7_InitHeadersForwarded ==
    \A i \in 1..Len(initLog) : initLog[i].headers = Get(config, "headers")

-----------------------------------------------------------------------------
(* Properties of the transcoders (checked under SpecContent) *)

\* The transcoder fn has run on the sampled response.
Transcoded(fn) == sample.pc = "done" /\ sample.fn = fn

\* The Content-Type header of the sampled response, "" when it is absent.
SampleHeader == IF sample.res.contentType = Null THEN "" ELSE sample.res.contentType.s

\* The bytes a base64 text stands for.
Base64Index(c) == IF c = "=" THEN 0 ELSE CHOOSE n \in 0..63 : Base64Char(n) = c

Base64DecodeGroup(g) ==
    LET v == [i \in 1..4 |-> Base64Index(SubSeq(g, i, i))]
        pad == IF SubSeq(g, 3, 4) = "==" THEN 2 ELSE IF SubSeq(g, 4, 4) = "=" THEN 1 ELSE 0
    IN SubSeq(<<v[1] * 4 + v[2] \div 16,
                (v[2] % 16) * 16 + v[3] \div 4,
                (v[3] % 4) * 64 + v[4]>>, 1, 3 - pad)

RECURSIVE Base64Decode(_)
Base64Decode(s) ==
    IF Len(s) = 0 THEN <<>>
    ELSE IF Len(s) = 4 THEN Base64DecodeGroup(s)
    ELSE LET cut == 4 * ((Len(s) \div 4) \div 2)
         IN Base64Decode(SubSeq(s, 1, cut)) \o Base64Decode(SubSeq(s, cut + 1, Len(s)))

\* The bytes of the sampled body as the server sent them.
SampleBytes ==
    IF sample.res.body.enc = "ascii"
    THEN [i \in 1..Len(sample.res.body.text) |-> CharCode(SubSeq(sample.res.body.text, i, i))]
    ELSE sample.res.body.bytes

\* C8: toMCPContent classifies by Content-Type in a fixed priority order, first
\* match wins: contains text/plain gives one TextBlock holding the whole text
\* body; else contains application/json gives the JSON rule (the body is read
\* as JSON); else starts with image/ gives one ImageBlock whose mimeType is the
\* full header and whose data is the base64 of the raw bytes; any other value,
\* the absent header included, rejects as unsupported without reading the body.
C8_PriorityOrder ==
    Transcoded("toMCPContent") =>
        IF Includes(SampleHeader, "text/plain")
        THEN /\ sample.out.st = "resolved"
             /\ sample.out.reads = <<"text">>
             /\ sample.out.v = Obj(<<KV("content", Arr(<<TextBlock(ResText(sample.res))>>))>>)
        ELSE IF Includes(SampleHeader, "application/json")
        THEN /\ sample.out.reads = <<"json">>
             /\ sample.out.st = "resolved" <=> (/\ sample.res.body.enc = "ascii"
                                                /\ sample.res.body.text \in DOMAIN ParseTable)
        ELSE IF StartsWith(SampleHeader, "image/")
        THEN /\ sample.out.st = "resolved"
             /\ sample.out.reads = <<"arrayBuffer">>
             /\ Len(sample.out.v.o) = 1
             /\ Len(Get(sample.out.v, "content").a) = 1
             /\ LET block == Get(sample.out.v, "content").a[1] IN
                /\ Len(block.o) = 3
                /\ Get(block, "type") = Str("image")
                /\ Get(block, "mimeType") = Str(SampleHeader)
                /\ Base64Decode(Get(block, "data").s) = SampleBytes
        ELSE /\ sample.out.st = "rejected"
             /\ sample.out.reads = <<>>
             /\ sample.out.err = "Unsupported or unknown content type \"" \o SampleHeader \o "\"."

\* A header naming both application/json and text/plain, on a body that is a
\* JSON array, has produced one TextBlock of the raw body text.
C8_Witness ==
    /\ Transcoded("toMCPContent")
    /\ SampleHeader = "application/json; from=text/plain"
    /\ sample.res.body = AsciiBody("[{\"type\":\"text\",\"text\":\"item1\"}]")
    /\ sample.out.v = Obj(<<KV("content",
                              Arr(<<TextBlock("[{\"type\":\"text\",\"text\":\"item1\"}]")>>))>>)

\* The sampled response with its Content-Type header in lower case.
LowerCased(res) ==
    IF res.contentType = Null THEN res
    ELSE [res EXCEPT !.contentType = Str(ToLowerCase(res.contentType.s))]

\* C9: both transcoders match the Content-Type header case-insensitively: a
\* response is transcoded through the same rule (same outcome, same body
\* accessor) as the response whose header is its lower-case form.
C9_CaseInsensitive ==
    /\ Transcoded("toMCPContent") =>
          /\ sample.out.st = toMCPContent(LowerCased(sample.res)).st
          /\ sample.out.reads = toMCPContent(LowerCased(sample.res)).reads
    /\ Transcoded("toMCPResourceContent") =>
          /\ sample.out.st = toMCPResourceContent(LowerCased(sample.res), sample.uri).st
          /\ sample.out.reads = toMCPResourceContent(LowerCased(sample.res), sample.uri).reads

\* The JSON text of each upstream JSON document.
JsonBodyOf == [j \in JsonValues |-> JSONStringify(j)]

\* C10: for an application/json response whose body is the JSON text of j,
\* toMCPContent gives {content: j} for an array, j itself for a non-null
\* object, one TextBlock of the string itself for a string, and one TextBlock
\* of the JSON stringification for a number or a boolean.
C10_JsonShapes ==
    \A j \in JsonValues :
        (/\ Transcoded("toMCPContent")
         /\ Includes(SampleHeader, "application/json")
         /\ ~Includes(SampleHeader, "text/plain")
         /\ sample.res.body = AsciiBody(JsonBodyOf[j]))
        => /\ sample.out.st = "resolved"
           /\ sample.out.v =
                 CASE j.t = "arr" -> Obj(<<KV("content", j)>>)
                   [] j.t = "obj" -> j
                   [] j.t = "str" -> Obj(<<KV("content", Arr(<<TextBlock(j.s)>>))>>)
                   [] j.t \in {"num", "bool"} ->
                         Obj(<<KV("content", Arr(<<TextBlock(JsonBodyOf[j])>>))>>)
                   [] OTHER -> sample.out.v

\* A JSON string holding double quotes has come out as a TextBlock of the
\* string itself, quotes unescaped.
C10_Witness ==
    /\ Transcoded("toMCPContent")
    /\ SampleHeader = "application/json; charset=utf-8"
    /\ sample.res.body = AsciiBody("\"say \\\"hi\\\"\"")
    /\ sample.out.v = Obj(<<KV("content", Arr(<<TextBlock("say \"hi\"")>>))>>)

\* C11: toMCPResourceContent never rejects and returns exactly one of text or
\* blob: a header containing text/, application/json or application/xml gives
\* {uri, mimeType: the full header, text: the body text}; every other header
\* gives {uri, mimeType, blob: base64 of the raw bytes} with mimeType the full
\* header, or application/octet-stream when the header is empty or absent.
\* The uri of the result is the uri passed in.
C11_TextOrBlob ==
    Transcoded("toMCPResourceContent") =>
        /\ sample.out.st = "resolved"
        /\ Len(sample.out.v.o) = 3
        /\ Get(sample.out.v, "uri") = Str(sample.uri)
        /\ Has(sample.out.v, "text") # Has(sample.out.v, "blob")
        /\ IF \/ Includes(SampleHeader, "text/")
              \/ Includes(SampleHeader, "application/json")
              \/ Includes(SampleHeader, "application/xml")
           THEN /\ Get(sample.out.v, "mimeType") = Str(SampleHeader)
                /\ Get(sample.out.v, "text") = Str(ResText(sample.res))
           ELSE /\ Get(sample.out.v, "mimeType") =
                      Str(IF SampleHeader = "" THEN "application/octet-stream" ELSE SampleHeader)
                /\ Has(sample.out.v, "blob")
                /\ Base64Decode(Get(sample.out.v, "blob").s) = SampleBytes

\* An application/xml document has come out as text under its own mime type.
C11_Witness ==
    /\ Transcoded("toMCPResourceContent")
    /\ SampleHeader = "application/xml"
    /\ sample.res.body = AsciiBody("<a/>")
    /\ sample.uri = "file://r1"
    /\ sample.out.v = Obj(<<KV("uri", Str("file://r1")), KV("mimeType", Str("application/xml")),
                            KV("text", Str("<a/>"))>>)

-----------------------------------------------------------------------------
(* Properties of mcpReadResource (checked under Spec) *)

\* mcpReadResource has run to its end on a 2xx response whose body, when the
\* header announces JSON, is well-formed JSON.
ResourceRead ==
    /\ Answered("readResource")
    /\ call.res.status \in 200..299
    /\ Includes(ContentTypeOf(call.res), "application/json")
          => (call.res.body.enc = "ascii" /\ call.res.body.text \in DOMAIN ParseTable)

\* The response announces JSON and its body is an object with a contents array.
CarriesContents(res) ==
    /\ Includes(ContentTypeOf(res), "application/json")
    /\ ParseTable[res.body.text].t = "obj"
    /\ Get(ParseTable[res.body.text], "contents").t = "arr"

\* The result the specification gives for a 2xx response.
ExpectedRead(res, uri) ==
    IF CarriesContents(res) THEN ParseTable[res.body.text]
    ELSE Obj(<<KV("contents", Arr(<<toMCPResourceContent(res, uri).v>>))>>)

\* C12: on a 2xx response, mcpReadResource returns a JSON object with a
\* contents array verbatim, and in every other case (a JSON array, primitive,
\* null or object without contents included) resolves to
\* {contents: [toMCPResourceContent(res, uri)]}.
C12_ReadResourceResult ==
    ResourceRead =>
        /\ call.out.st = "resolved"
        /\ call.out.v = ExpectedRead(call.res, call.name)

\* The part of C12 the code keeps: the result is as specified whenever the
\* response lets its body be read a second time, or the body is read once.
C12_WhenBodyReadOnceOrBuffered ==
    (ResourceRead /\ (call.reusable \/ Len(call.out.reads) <= 1))
    => /\ call.out.st = "resolved"
       /\ call.out.v = ExpectedRead(call.res, call.name)

\* s ends with p.
EndsWith(s, p) == Len(p) <= Len(s) /\ SubSeq(s, Len(s) - Len(p) + 1, Len(s)) = p

\* The query of url holds the parameter name with the value value.
HasParam(url, name, value) ==
    LET pair == FormEncode(name) \o "=" \o FormEncode(value) IN
    \/ EndsWith(url, "?" \o pair) \/ EndsWith(url, "&" \o pair)
    \/ Includes(url, "?" \o pair \o "&") \/ Includes(url, "&" \o pair \o "&")

\* C13: every request mcpReadResource issues carries a uri query parameter
\* whose value is the requested resource uri; no field of the arguments
\* overrides it, a field named uri included.
C13_UriParameterKept ==
    (call.op = "readResource") =>
        \A i \in 1..Len(call.requests) : HasParam(call.requests[i].url, "uri", call.name)

\* The part of C13 the code keeps: the uri parameter is the requested uri
\* whenever the arguments have no field named uri.
C13_WhenArgsHaveNoUri ==
    (call.op = "readResource" /\ ~Has(call.args, "uri")) =>
        \A i \in 1..Len(call.requests) : HasParam(call.requests[i].url, "uri", call.name)

-----------------------------------------------------------------------------
(* Properties of the dispatchers' requests (checked under Spec) *)

\* The entry of the state's section that the running invocation has matched.
Matched ==
    LET section == Get(initResult.v, SectionOf(call.op)).a IN
    section[CHOOSE i \in 1..Len(section) :
               /\ Get(section[i], IdentityKey(call.op)) = Str(call.name)
               /\ \A j \in 1..(i - 1) : Get(section[j], IdentityKey(call.op)) # Str(call.name)]

\* The number of question marks in s.
QuestionMarks(s) == Cardinality({ i \in 1..Len(s) : SubSeq(s, i, i) = "?" })

\* C14: mcpReadResource GETs the collection URL itself, resourcesUrl ? query,
\* for a resource without href, and combineURLs(resourcesUrl, href) ? query for
\* one with an href; the method is GET and the query follows exactly one
\* question mark.
C14_ResourceRequestUrl ==
    (call.op = "readResource" /\ call.requests # <<>>) =>
        /\ Len(call.requests) = 1
        /\ call.requests[1].method = "GET"
        /\ call.requests[1].body = Undefined
        /\ QuestionMarks(call.requests[1].url) = 1
        /\ StartsWith(call.requests[1].url,
                      (IF Has(Matched, "href")
                       THEN combineURLs(Get(initResult.v, "resourcesUrl").s,
                                        Get(Matched, "href").s)
                       ELSE Get(initResult.v, "resourcesUrl").s) \o "?uri=")

\* A resource listed without href has been requested at the collection URL.
C14_Witness ==
    /\ call.op = "readResource" /\ call.requests # <<>>
    /\ ~Has(Matched, "href")
    /\ call.requests[1].url = "http://localhost:3000/custom-resources?uri=file%3A%2F%2Fr2"

\* C15: mcpCallTool on a known tool issues one POST whose URL is
\* combineURLs(toolsUrl, href) when the tool has an href and
\* combineURLs(toolsUrl, name) when it has none, and whose body is the
\* arguments the caller passed, unchanged.
C15_ToolRequest ==
    (call.op = "callTool" /\ call.requests # <<>>) =>
        /\ Len(call.requests) = 1
        /\ call.requests[1].method = "POST"
        /\ call.requests[1].body = call.args
        /\ call.requests[1].url =
              combineURLs(Get(initResult.v, "toolsUrl").s,
                          IF Has(Matched, "href") THEN Get(Matched, "href").s
                          ELSE Get(Matched, "name").s)

\* A tool listed with an href has been called at the href, not at its name,
\* with its arguments as the body.
C15_Witness ==
    /\ call.op = "callTool" /\ call.requests # <<>>
    /\ call.name = "tools1"
    /\ call.requests[1].url = "http://localhost:3000/custom-tools/h1"
    /\ call.requests[1].body = Obj(<<KV("query", Str("2+2"))>>)

-----------------------------------------------------------------------------
(* Properties of mcpGetPrompt (checked under Spec) *)

\* A prompt result of exactly one text message.
OneMessage(role, text) ==
    Obj(<<KV("messages",
             Arr(<<Obj(<<KV("role", Str(role)),
                         KV("content", Obj(<<KV("type", Str("text")),
                                             KV("text", Str(text))>>))>>)>>))>>)

\* C16: on a 2xx response mcpGetPrompt transcodes by Content-Type. Containing
\* application/json: a parsed object with an array field messages is returned
\* as-is, every other parsed value is wrapped as one assistant text message
\* holding the JSON text of the body. Containing text/plain: the text body is
\* wrapped as one user message. Any other Content-Type rejects as unsupported.
C16_PromptTranscoding ==
    (/\ Answered("getPrompt")
     /\ call.res.status \in 200..299
     /\ Includes(ContentTypeOf(call.res), "application/json")
           => (call.res.body.enc = "ascii" /\ call.res.body.text \in DOMAIN ParseTable))
    => IF Includes(ContentTypeOf(call.res), "application/json")
       THEN LET json == ParseTable[call.res.body.text] IN
            /\ call.out.st = "resolved"
            /\ call.out.v = IF json.t = "obj" /\ Get(json, "messages").t = "arr"
                            THEN json
                            ELSE OneMessage("assistant", call.res.body.text)
       ELSE IF Includes(ContentTypeOf(call.res), "text/plain")
       THEN /\ call.out.st = "resolved"
            /\ call.out.v = OneMessage("user", ResText(call.res))
       ELSE /\ call.out.st = "rejected"
            /\ call.out.reads = <<>>
            /\ call.out.err = "Unsupported content type \"" \o ContentTypeOf(call.res)
                              \o "\" for prompt response."

\* An object whose messages field is a string, not an array, has been wrapped
\* as one assistant message holding its JSON text.
C16_Witness ==
    /\ Answered("getPrompt")
    /\ call.res.status = 200
    /\ ContentTypeOf(call.res) = "application/json; charset=utf-8"
    /\ call.res.body = AsciiBody("{\"messages\":\"none\"}")
    /\ call.out.v = OneMessage("assistant", "{\"messages\":\"none\"}")

-----------------------------------------------------------------------------
(* Properties of the section fetches (checked under SpecInitialize) *)

\* The default path of a section.
DefaultPath(x) ==
    CASE x = "tools" -> "tools"
      [] x = "prompts" -> "prompts"
      [] x = "resources" -> "resources"
      [] x = "resourceTemplates" -> "resource_templates"

\* The URL a declared section is to be fetched at.
SectionUrl(x) ==
    combineURLs(Get(config, "baseUrl").s,
                IF Get(manifest, x) = Bool(TRUE) THEN DefaultPath(x) ELSE Get(manifest, x).s)

\* The number of GETs initializeServerState has issued to url.
GetsTo(url) ==
    Cardinality({ i \in 1..Len(initLog) :
                     initLog[i].method = "GET" /\ initLog[i].url = url })

\* C17: a section whose manifest field is true is fetched at
\* combineURLs(baseUrl, default path), the default path being the section name
\* for tools, prompts and resources and resource_templates for
\* resourceTemplates; a section whose field is a non-empty string is fetched at
\* combineURLs(baseUrl, that string); and the <name>Url of the returned state
\* is exactly the URL that was fetched.
C17_SectionUrls ==
    \A x \in Sections :
        (/\ manifest # Undefined
         /\ \/ Get(manifest, x) = Bool(TRUE)
            \/ (Get(manifest, x).t = "str" /\ Get(manifest, x).s # ""))
        => /\ fetches[x].url = SectionUrl(x)
           /\ GetsTo(SectionUrl(x)) = 1
           /\ initResult.st = "resolved"
                 => Get(initResult.v, x \o "Url") = Str(SectionUrl(x))

\* A manifest with resourceTemplates: true and prompts at a custom path has
\* given a state whose URLs are the resource_templates default and the custom path.
C17_Witness ==
    /\ initResult.st = "resolved"
    /\ Get(manifest, "resourceTemplates") = Bool(TRUE)
    /\ Get(manifest, "prompts") = Str("/api/prompts/")
    /\ Get(initResult.v, "resourceTemplatesUrl") = Str("http://localhost:3000/resource_templates")
    /\ Get(initResult.v, "promptsUrl") = Str("http://localhost:3000/api/prompts/")
    /\ GetsTo("http://localhost:3000/resource_templates") = 1

-----------------------------------------------------------------------------
(* combineURLs on its own *)

\* n slashes.
RECURSIVE Slashes(_)
Slashes(n) == IF n = 0 THEN "" ELSE "/" \o Slashes(n - 1)

\* Base URLs without their trailing slashes, and relative paths without their
\* leading slashes.
BaseStems == { "http://localhost:3000", "http://localhost:3000/api/v1", "" }
PathStems == { "", "tools", "resource_templates", "api/prompts/", "h1", "a//b" }

\* combineURLs(baseURL, relativeURL)
ApplyCombineURLs ==
    /\ sample.pc = "input" /\ sample.fn = "combineURLs"
    /\ sample' = [sample EXCEPT !.pc = "done",
                                !.out = combineURLs(sample.baseURL, sample.relativeURL)]
    /\ UNCHANGED <<config, upstream, initPc, manifest, fetches, initResult, initLog, call, peer>>

InitUrls ==
    /\ config \in {CHOOSE c \in Configs : TRUE}
    /\ upstream = [x \in {"manifest"} \cup Sections |-> Throws]
    /\ initPc = "idle"
    /\ manifest = Undefined
    /\ fetches = [x \in Sections |-> IdleFetch]
    /\ initResult = Pending
    /\ initLog = <<>>
    /\ call = IdleCall
    /\ peer = IdleCall
    /\ \E stem \in BaseStems, trailing \in 0..MaxSlashes,
          path \in PathStems, leading \in 0..MaxSlashes :
          sample = [pc |-> "input", fn |-> "combineURLs",
                    stem |-> stem, trailing |-> trailing,
                    path |-> path, leading |-> leading,
                    baseURL |-> stem \o Slashes(trailing),
                    relativeURL |-> Slashes(leading) \o path,
                    out |-> ""]

UrlsNext == ApplyCombineURLs
SpecUrls == InitUrls /\ [][UrlsNext]_vars

\* C18: combineURLs is total; for a base with 0 to MaxSlashes trailing slashes
\* and a non-empty relative path with 0 to MaxSlashes leading slashes it
\* returns the base without its trailing slashes, one slash, and the path
\* without its leading slashes; for the empty relative path it returns the
\* base unchanged, trailing slashes included.
C18_OneSeparator ==
    (sample.pc = "done" /\ sample.fn = "combineURLs") =>
        sample.out = IF sample.relativeURL = ""
                     THEN sample.stem \o Slashes(sample.trailing)
                     ELSE sample.stem \o "/" \o sample.path

\* Two trailing and two leading slashes have collapsed into one separator.
C18_Witness ==
    /\ sample.pc = "done" /\ sample.fn = "combineURLs"
    /\ sample.baseURL = "http://localhost:3000//"
    /\ sample.relativeURL = "//tools"
    /\ sample.out = "http://localhost:3000/tools"

-----------------------------------------------------------------------------
(* Properties of initialization failures (checked under SpecInitialize) *)

\* initializeServerState has rejected after a well-formed manifest was served.
SectionFailureReported == ManifestServed /\ initResult.st = "rejected"

\* C19: when a declared section's fetch fails, by a non-2xx status or by the
\* HTTP collaborator throwing, the failure initializeServerState reports is a
\* section fetch failure that identifies a failing section.
C19_SectionFailureNamed ==
    SectionFailureReported =>
        \E x \in Sections :
            /\ Declares(x) /\ SectionFails(x)
            /\ StartsWith(initResult.err, "Failed to fetch " \o x \o ": ")

\* C19 as amended: a non-2xx answer of a declared section is reported as
\* Failed to fetch <section>: <status> <statusText>, and an error thrown by
\* the HTTP collaborator is reported as the collaborator threw it; the failure
\* reported is that of a declared section whose fetch has failed.
C19_SectionFailureReported ==
    SectionFailureReported =>
        \E x \in Sections :
            /\ Declares(x) /\ SectionFails(x) /\ fetches[x].st = "rejected"
            /\ initResult.v = Undefined
            /\ initResult.err =
                  IF upstream[x].kind = "throws" THEN "TypeError: fetch failed"
                  ELSE "Failed to fetch " \o x \o ": "
                       \o ToString(upstream[x].res.status) \o " " \o upstream[x].res.statusText

\* A 404 at the resource templates endpoint has been reported under the
\* section name with its status and status text.
C19_Witness ==
    /\ SectionFailureReported
    /\ upstream["resourceTemplates"].kind = "response"
    /\ initResult.err = "Failed to fetch resourceTemplates: 404 Not Found"

\* The manifest GET has been answered with a status outside 200..299.
ManifestRefused ==
    /\ initPc \notin {"idle", "manifest"}
    /\ upstream["manifest"].kind = "response"
    /\ upstream["manifest"].res.status \notin 200..299

\* C20: when the manifest GET returns a non-2xx status, initializeServerState
\* rejects with Failed to fetch manifest carrying the status and status text,
\* the manifest body is not parsed, and no section fetch is issued.
C20_ManifestFailure ==
    ManifestRefused =>
        /\ initPc = "done"
        /\ initResult.st = "rejected"
        /\ initResult.v = Undefined
        /\ initResult.err = "Failed to fetch manifest: "
                            \o ToString(upstream["manifest"].res.status) \o " "
                            \o upstream["manifest"].res.statusText
        /\ initResult.reads = <<>>
        /\ manifest = Undefined
        /\ \A x \in Sections : fetches[x] = IdleFetch
        /\ Len(initLog) = 1
        /\ initLog[1].url = Get(config, "baseUrl").s

\* A 500 carrying a well-formed JSON body has been reported with its status
\* and status text, and the manifest GET is the only request issued.
C20_Witness ==
    /\ ManifestRefused
    /\ initResult.err = "Failed to fetch manifest: 500 Internal Server Error"
    /\ Len(initLog) = 1
    /\ upstream["manifest"].res.body.text \in DOMAIN ParseTable

-----------------------------------------------------------------------------
(* Two dispatcher invocations interleaved against one state *)

Operations == {"callTool", "getPrompt", "readResource"}

\* The arguments a caller passes to each operation.
ArgumentsOf(op) ==
    CASE op = "callTool" -> ToolArguments
      [] op = "getPrompt" -> PromptArguments
      [] op = "readResource" -> ResourceArguments

\* A dispatcher up to its await: the lookup, and the request when it succeeds.
Started(op, state, name, args) ==
    LET section == CASE op = "callTool" -> "tools"
                     [] op = "getPrompt" -> "prompts"
                     [] op = "readResource" -> "resources"
        key == IF op = "readResource" THEN "uri" ELSE "name"
        entry == Find(Get(state, section), key, name)
    IN IF ~Truthy(entry)
       THEN LookupFailed(op, name, args,
                         CASE op = "callTool" -> UnknownTool(name)
                           [] op = "getPrompt" -> UnknownPrompt(name)
                           [] op = "readResource" -> UnknownResource(name))
       ELSE Awaiting(op, name, args,
                     CASE op = "callTool" -> CallToolRequest(state, entry, args)
                       [] op = "getPrompt" -> GetPromptRequest(state, entry, args)
                       [] op = "readResource" -> ReadResourceRequest(state, entry, name, args))

\* A dispatcher from the response on.
Settled(op, name, res, reusable) ==
    CASE op = "callTool" -> CallToolResult(res)
      [] op = "getPrompt" -> GetPromptResult(name, res)
      [] op = "readResource" -> ReadResourceResult(name, res, reusable)

\* The second invocation is made, up to its await.
PeerStarts(op, name, args) ==
    /\ initResult.st = "resolved"
    /\ peer.pc = "idle"
    /\ Registered(initResult.v, CASE op = "callTool" -> "tools"
                                  [] op = "getPrompt" -> "prompts"
                                  [] op = "readResource" -> "resources")
    /\ peer' = Started(op, initResult.v, name, args)
    /\ UNCHANGED <<config, upstream, initPc, manifest, fetches, initResult, initLog, call, sample>>

\* The second invocation's request is answered and it runs to its end.
PeerSettles(res, reusable) ==
    /\ peer.pc = "awaiting"
    /\ peer' = [peer EXCEPT !.pc = "done", !.res = res, !.reusable = reusable,
                            !.out = Settled(peer.op, peer.name, res, reusable)]
    /\ initResult' = IF peer.op = "callTool"
                     THEN [initResult EXCEPT
                              !.v = StateAfterCallTool(initResult.v, peer.name, res)]
                     ELSE initResult
    /\ UNCHANGED <<config, upstream, initPc, manifest, fetches, initLog, call, sample>>

\* The HTTP collaborator throws in the second invocation.
PeerRequestFails ==
    /\ peer.pc = "awaiting"
    /\ peer' = [peer EXCEPT !.pc = "done", !.out = Rejected(FetchFailed, <<>>)]
    /\ UNCHANGED <<config, upstream, initPc, manifest, fetches, initResult, initLog, call, sample>>

\* The caller has taken the outcome of the second invocation.
PeerReturn ==
    /\ peer.pc = "done"
    /\ peer' = IdleCall
    /\ UNCHANGED <<config, upstream, initPc, manifest, fetches, initResult, initLog, call, sample>>

\* The responses the interleaved invocations are answered with: a success, a
\* tool failure carrying its own isError, an authorization failure and text.
InterleavedResponses ==
    { Response(200, Str("application/json"),
               AsciiBody(JSONStringify(Obj(<<KV("message", Str("x"))>>)))),
      Response(500, Str("application/json"),
               AsciiBody(JSONStringify(Obj(<<KV("content", Arr(<<TextBlock("data")>>)),
                                             KV("isError", Bool(FALSE))>>)))),
      Response(401, Null, BinaryBody(<<>>)),
      Response(200, Str("text/plain"), AsciiBody("Hello")) }

\* One server that declares and serves every section.
InitInterleaved ==
    /\ config = Obj(<<KV("baseUrl", Str(BaseUrl))>>)
    /\ upstream = [x \in {"manifest"} \cup Sections |->
                      IF x = "manifest"
                      THEN Answer(JsonResponse(200, ManifestDoc([y \in Sections |-> Bool(TRUE)])))
                      ELSE Answer(JsonResponse(200, SectionListing(x)))]
    /\ initPc = "idle"
    /\ manifest = Undefined
    /\ fetches = [x \in Sections |-> IdleFetch]
    /\ initResult = Pending
    /\ initLog = <<>>
    /\ call = IdleCall
    /\ peer = IdleCall
    /\ sample = IdleSample

InterleavedNext ==
    \/ InitializeNext
    \/ \E n \in Identities(initResult.v, "tools", "name"), a \in ToolArguments : CallTool(n, a)
    \/ \E n \in Identities(initResult.v, "prompts", "name"), a \in PromptArguments : GetPrompt(n, a)
    \/ \E u \in Identities(initResult.v, "resources", "uri"), a \in ResourceArguments :
          ReadResource(u, a)
    \/ \E res \in InterleavedResponses : CallToolSettles(res)
    \/ \E res \in InterleavedResponses : GetPromptSettles(res)
    \/ \E res \in InterleavedResponses, reusable \in BOOLEAN : ReadResourceSettles(res, reusable)
    \/ RequestFails
    \/ Return
    \/ \E op \in Operations :
          \E n \in Identities(initResult.v, SectionOf(op), IdentityKey(op)), a \in ArgumentsOf(op) :
             PeerStarts(op, n, a)
    \/ \E res \in InterleavedResponses, reusable \in BOOLEAN : PeerSettles(res, reusable)
    \/ PeerRequestFails
    \/ PeerReturn

SpecInterleaved == InitInterleaved /\ [][InterleavedNext]_vars

\* The state initializeServerState assembled from the manifest and the
\* section contributions, before any dispatcher ran.
StateAsReturned ==
    AssembleState(config, manifest,
                  [i \in 1..Len(SectionOrder) |-> fetches[SectionOrder[i]].out.v])

\* What the invocation in frame f shows when it runs alone against the state
\* as returned, with the response f was answered with.
RunAlone(f) ==
    IF f.pc = "awaiting" \/ (f.pc = "done" /\ f.requests # <<>> /\ f.res = NoResponse)
    THEN [f EXCEPT !.pc = "awaiting", !.out = Pending] =
            Started(f.op, StateAsReturned, f.name, f.args)
    ELSE IF f.pc = "done" /\ f.requests = <<>>
    THEN f = Started(f.op, StateAsReturned, f.name, f.args)
    ELSE f.pc = "done" =>
            /\ f.requests = Started(f.op, StateAsReturned, f.name, f.args).requests
            /\ f.out = Settled(f.op, f.name, f.res, f.reusable)

-----------------------------------------------------------------------------
(* Properties of the list operations (checked under Spec) *)

\* The keys of an object.
Keys(o) == { o.o[i].k : i \in 1..Len(o.o) }

\* The elements of a sequence of names.
Range(names) == { names[i] : i \in 1..Len(names) }

\* The wire-visible fields of each kind of entry.
WireVisible(x) ==
    CASE x = "tools" -> {"name", "description", "inputSchema"}
      [] x = "prompts" -> {"name", "description", "arguments"}
      [] x = "resources" -> {"uri", "name", "description", "mimeType"}
      [] x = "resourceTemplates" -> {"uriTemplate", "name", "description", "mimeType"}

\* C22: each list operation returns one output entry per entry of the state
\* section, in the same order, holding only the wire-visible fields of that
\* kind with the values the state entry has; href appears in no output entry,
\* no HTTP request is issued and the state is left unchanged.
C22_ListProjection ==
    \A x \in Sections :
        (call.pc = "done" /\ call.op = "list" /\ call.name = x) =>
            LET listed == Get(initResult.v, x).a
                output == Get(call.out.v, x).a
            IN /\ call.out.st = "resolved"
               /\ Keys(call.out.v) = {x}
               /\ Len(output) = Len(listed)
               /\ \A i \in 1..Len(listed) :
                     /\ Keys(output[i]) \subseteq WireVisible(x)
                     /\ "href" \notin Keys(output[i])
                     /\ \A k \in WireVisible(x) : Get(output[i], k) = Get(listed[i], k)
               /\ call.requests = <<>>
               /\ initResult.v = StateAsReturned

\* The tools have been listed: the first tool has an href in the state and
\* none in the output, and the order of the names is kept.
C22_Witness ==
    /\ call.pc = "done" /\ call.op = "list" /\ call.name = "tools"
    /\ Has(Get(initResult.v, "tools").a[1], "href")
    /\ Len(Get(call.out.v, "tools").a) = MaxEntries
    /\ Get(Get(call.out.v, "tools").a[1], "name") = Str("tools1")
    /\ Get(Get(call.out.v, "tools").a[2], "name") = Str("tools2")
    /\ ~Has(Get(call.out.v, "tools").a[1], "href")

-----------------------------------------------------------------------------
(* Properties of the concurrent section fetches (checked under SpecInitialize) *)

\* C23: initializeServerState does not settle, neither resolving nor
\* rejecting, until every section fetch it issued has settled: the caller
\* observes no outcome while a section fetch is outstanding.
C23_SettlesAfterAllFetches ==
    (manifest # Undefined /\ initResult.st # "pending")
    => \A x \in Sections : fetches[x].st # "pending"

\* The part of C23 the code keeps: it does not resolve while a section fetch
\* is outstanding.
C23_ResolvesAfterAllFetches ==
    initResult.st = "resolved" => \A x \in Sections : fetches[x].st = "fulfilled"

\* C24: when two or more section fetches fail in one execution, under every
\* order of settling, the caller receives exactly one failure, it is the
\* failure of one of the failing sections, and no other section's rejection is
\* silently swallowed: every rejection is one the caller gets to observe.
C24_NoRejectionSwallowed ==
    (manifest # Undefined /\ \A x \in Sections : fetches[x].st # "pending")
    => /\ (\E x \in Sections : fetches[x].st = "rejected") =>
             /\ initResult.st = "rejected"
             /\ \E x \in Sections :
                   fetches[x].st = "rejected" /\ initResult.err = fetches[x].out.err
       /\ \A x \in Sections :
             fetches[x].st = "rejected" => initResult.err = fetches[x].out.err

\* The part of C24 the code keeps: exactly one failure reaches the caller,
\* and it is that of a failing section.
C24_OneFailureReported ==
    (manifest # Undefined /\ \E x \in Sections : fetches[x].st = "rejected")
    => /\ initResult.st = "rejected"
       /\ \E x \in Sections :
             fetches[x].st = "rejected" /\ initResult.err = fetches[x].out.err

-----------------------------------------------------------------------------
(* Properties of the requests of initializeServerState (checked under SpecInitialize) *)

\* The sections whose manifest field is truthy.
DeclaredSections ==
    { x \in Sections :
         \/ Get(manifest, x) = Bool(TRUE)
         \/ (Get(manifest, x).t = "str" /\ Get(manifest, x).s # "") }

\* C25: the manifest GET is issued first and no section GET is issued before
\* the manifest response has arrived with a 2xx status and been parsed;
\* afterwards exactly one GET is issued for each section whose manifest field
\* is truthy and none for any other section: at most five GETs, and no
\* section fetched twice.
C25_RequestOrder ==
    /\ initLog = <<>> <=> initPc = "idle"
    /\ \A i \in 1..Len(initLog) : initLog[i].method = "GET"
    /\ initLog # <<>> => initLog[1].url = Get(config, "baseUrl").s
    /\ Len(initLog) <= 5
    /\ Len(initLog) > 1 => (ManifestServed /\ manifest = ServedManifest)
    /\ manifest # Undefined =>
          /\ Len(initLog) = 1 + Cardinality(DeclaredSections)
          /\ \A x \in DeclaredSections :
                Cardinality({ i \in 2..Len(initLog) : initLog[i].url = SectionUrl(x) }) = 1

\* A manifest that declares tools alone, its prompts field being the empty
\* string, has led to two GETs: the manifest and the tools.
C25_Witness ==
    /\ manifest # Undefined
    /\ Get(manifest, "tools") = Bool(TRUE)
    /\ Get(manifest, "prompts") = Str("")
    /\ ~Has(manifest, "resources") /\ ~Has(manifest, "resourceTemplates")
    /\ Len(initLog) = 2
    /\ initLog[2].url = "http://localhost:3000/tools"

-----------------------------------------------------------------------------
(* Properties of the dispatchers' use of the HTTP collaborator (checked under Spec) *)

\* C26: no dispatcher retries: one invocation invokes the HTTP collaborator
\* at most once, exactly once when the lookup succeeds and never when it
\* misses, whatever the status of the response; and an error thrown by the
\* collaborator, like an authorization failure or a failed prompt or resource
\* fetch, reaches the caller as the rejection of that invocation.
C26_NoRetry ==
    \A op \in {"callTool", "getPrompt", "readResource"} :
        (call.pc # "idle" /\ call.op = op) =>
            /\ Len(call.requests) = IF Listed(op, call.name) THEN 1 ELSE 0
            /\ (call.pc = "done" /\ call.requests # <<>> /\ call.res = NoResponse)
                  => call.out = [st |-> "rejected", v |-> Undefined,
                                 err |-> "TypeError: fetch failed", reads |-> <<>>]
            /\ (call.pc = "done" /\ call.res.status \in {401, 403}) => call.out.st = "rejected"
            /\ (/\ call.pc = "done" /\ op # "callTool"
                /\ call.res.status \in Statuses \ (200..299))
                  => call.out.st = "rejected"

\* The HTTP collaborator threw during a resource read: one request was
\* issued and the caller got the collaborator's error.
C26_Witness ==
    /\ call.pc = "done" /\ call.op = "readResource"
    /\ Len(call.requests) = 1
    /\ call.res = NoResponse
    /\ call.out.err = "TypeError: fetch failed"

\* C27: within one dispatcher invocation the body of the response is consumed
\* through at most one of its accessors and at most once; mcpReadResource
\* never calls the text or raw-bytes accessor on a response whose json
\* accessor it has already called.
C27_BodyReadOnce ==
    call.pc = "done" => Len(call.out.reads) <= 1

\* The part of C27 the code keeps: mcpCallTool and mcpGetPrompt read the body
\* at most once, and mcpReadResource does unless the response announces JSON
\* and carries no contents array.
C27_BodyReadOnceElsewhere ==
    (/\ call.pc = "done"
     /\ ~(/\ call.op = "readResource"
          /\ call.res.status \in 200..299
          /\ Includes(ContentTypeOf(call.res), "application/json")))
    => Len(call.out.reads) <= 1

-----------------------------------------------------------------------------
(* Properties of the state initializeServerState assembles (checked under SpecInitialize) *)

\* What the server serves for section x, parsed.
ServedListing(x) == ResJson(upstream[x].res).v

\* The two entries a declared section adds to the state; none for a section
\* the manifest does not declare.
ServedEntries(x) ==
    IF x \in DeclaredSections
    THEN <<KV(x, ServedListing(x)), KV(x \o "Url", Str(SectionUrl(x)))>>
    ELSE <<>>

\* The state as the configuration, the served manifest and the served
\* listings determine it, whatever the order the section GETs are answered in.
StateAsServed ==
    Obj(<<KV("config", config), KV("manifest", ServedManifest)>>
        \o ServedEntries("tools") \o ServedEntries("prompts")
        \o ServedEntries("resources") \o ServedEntries("resourceTemplates"))

-----------------------------------------------------------------------------
(* Properties of the query string of mcpGetPrompt (checked under Spec) *)

\* The number of occurrences of the character c in s.
Occurrences(s, c) == Cardinality({ i \in 1..Len(s) : SubSeq(s, i, i) = c })

\* The URL of the matched prompt before any query: promptsUrl joined with the
\* prompt's href, or with its name when it has none.
PromptBaseUrl ==
    combineURLs(Get(initResult.v, "promptsUrl").s,
                IF Has(Matched, "href") THEN Get(Matched, "href").s
                ELSE Get(Matched, "name").s)

\* url is base followed by a query that holds the entries of the mapping
\* args, one parameter each, the first entry first, every value stringified.
QueriesEntries(url, base, args) ==
    /\ StartsWith(url, base \o "?" \o FormEncode(args.o[1].k) \o "="
                                  \o FormEncode(ToStr(args.o[1].v)))
    /\ Occurrences(url, "?") = Occurrences(base, "?") + 1
    /\ Occurrences(url, "=") = Occurrences(base, "=") + Len(args.o)
    /\ Occurrences(url, "&") = Occurrences(base, "&") + Len(args.o) - 1
    /\ \A i \in 1..Len(args.o) : HasParam(url, args.o[i].k, ToStr(args.o[i].v))
    /\ \A i \in 1..Len(args.o) : EndsWith(url, FormEncode(ToStr(args.o[i].v))) => i = Len(args.o)

\* C29: mcpGetPrompt appends a query string to the URL of the prompt if and
\* only if the arguments are a non-null mapping with at least one entry, the
\* query then holding one parameter per key, in iteration order, each value
\* stringified; for null, absent, empty or non-mapping arguments (a string, an
\* array) the request URL is the URL of the prompt, without a question mark.
C29_QueryIffNonEmptyMapping ==
    (call.op = "getPrompt" /\ call.requests # <<>>) =>
        IF call.args.t = "obj" /\ call.args.o # <<>>
        THEN QueriesEntries(call.requests[1].url, PromptBaseUrl, call.args)
        ELSE /\ call.requests[1].url = PromptBaseUrl
             /\ Occurrences(call.requests[1].url, "?") = 0

\* The part of C29 the code keeps: the same, for arguments that are not an array.
C29_QueryUnlessArray ==
    (call.op = "getPrompt" /\ call.requests # <<>> /\ call.args.t # "arr") =>
        IF call.args.t = "obj" /\ call.args.o # <<>>
        THEN QueriesEntries(call.requests[1].url, PromptBaseUrl, call.args)
        ELSE /\ call.requests[1].url = PromptBaseUrl
             /\ Occurrences(call.requests[1].url, "?") = 0

\* Array arguments are given the query of their indices.
C29_ArrayIsQueried ==
    (call.op = "getPrompt" /\ call.requests # <<>> /\ call.args = Arr(<<Str("a")>>)) =>
        call.requests[1].url = PromptBaseUrl \o "?0=a"

-----------------------------------------------------------------------------
(* The command line: parseArguments and the script that calls it *)

\* String.prototype.trim, for the white space of the arguments considered:
\* the space character.
RECURSIVE Trim(_)
Trim(s) ==
    IF s # "" /\ SubSeq(s, 1, 1) = " " THEN Trim(SubSeq(s, 2, Len(s)))
    ELSE IF s # "" /\ SubSeq(s, Len(s), Len(s)) = " " THEN Trim(SubSeq(s, 1, Len(s) - 1))
    ELSE s

\* The position of the first colon of s at or after from, 0 when there is none.
ColonFrom(s, from) ==
    IF \E i \in from..Len(s) : SubSeq(s, i, i) = ":"
    THEN CHOOSE i \in from..Len(s) :
            /\ SubSeq(s, i, i) = ":"
            /\ \A j \in from..(i - 1) : SubSeq(s, j, j) # ":"
    ELSE 0

\* The first position of s at or after from that holds no space (Len(s) + 1
\* when only spaces follow): where a match of /:\s*/ ends.
RECURSIVE PastSpaces(_, _)
PastSpaces(s, from) ==
    IF from <= Len(s) /\ SubSeq(s, from, from) = " " THEN PastSpaces(s, from + 1) ELSE from

\* headerArg.split(/:\s*/, 2): the string is split at every colon with the
\* white space after it, and the first two pieces are kept.
SplitHeader(headerArg) ==
    LET first == ColonFrom(headerArg, 1) IN
    IF first = 0 THEN <<headerArg>>
    ELSE LET start == PastSpaces(headerArg, first + 1)
             next == ColonFrom(headerArg, start)
         IN <<SubSeq(headerArg, 1, first - 1),
              SubSeq(headerArg, start, IF next = 0 THEN Len(headerArg) ELSE next - 1)>>

InvalidHeaderFormat(headerArg) ==
    "Invalid header format: \"" \o headerArg \o "\". Expected \"HeaderName: HeaderValue\"."

\* parseArguments returns { url, customHeaders }
Parsed(url, customHeaders) ==
    [st |-> "parsed", url |-> url, customHeaders |-> customHeaders, message |-> ""]

\* parseArguments throws; the script prints the message and the usage and
\* exits with status 1.
Threw(message) ==
    [st |-> "exit", url |-> "", customHeaders |-> Obj(<<>>), message |-> message]

\* The while loop of parseArguments over the arguments left, url being "" as
\* long as no --url has been read.
RECURSIVE ParseLoop(_, _, _)
ParseLoop(args, url, customHeaders) ==
    IF args = <<>>
    THEN IF url = "" THEN Threw("Host URL must be provided via --url.")
         ELSE Parsed(url, customHeaders)
    ELSE LET arg == Head(args)
             rest == Tail(args)
         IN CASE arg = "--url" ->
                   IF rest # <<>> THEN ParseLoop(Tail(rest), Head(rest), customHeaders)
                   ELSE Threw("--url requires a value.")
              [] arg \in {"-H", "--header"} ->
                   IF rest # <<>>
                   THEN LET headerArg == Head(rest)
                            parts == SplitHeader(headerArg)
                        IN IF Len(parts) = 2 /\ parts[1] # "" /\ parts[2] # ""
                           THEN ParseLoop(Tail(rest), url,
                                          Set(customHeaders, Trim(parts[1]),
                                              Str(Trim(parts[2]))))
                           ELSE Threw(InvalidHeaderFormat(headerArg))
                   ELSE Threw("-H/--header requires a value.")
              [] arg \in {"-a", "--auth"} ->
                   IF rest # <<>> /\ Head(rest) # ""
                   THEN ParseLoop(Tail(rest), url,
                                  Set(customHeaders, "Authorization",
                                      Str("Bearer " \o Head(rest))))
                   ELSE Threw(arg \o " requires a token value.")
              [] OTHER -> Threw("Unknown argument " \o arg)

\* parseArguments(argv): the first two elements of argv are skipped.
parseArguments(argv) == ParseLoop(SubSeq(argv, 3, Len(argv)), "", Obj(<<>>))

\* The header options considered: a name, a separator and a value, put together.
HeaderArgs ==
    { name \o separator \o value :
         name \in {"", " ", "X-Origin", " X-Api-Key "},
         separator \in {"", ":", ": ", ":  "},
         value \in {"", "v", "value ", "http://host:8080", "Bearer a: b"} }

\* The command lines considered: --url with one header option, and one
\* command line for each other branch of the parser.
CommandLines ==
    { <<"node", "ssmcp", "--url", "http://localhost:8080", flag, headerArg>> :
         flag \in {"-H", "--header"}, headerArg \in HeaderArgs }
    \cup { <<"node", "ssmcp">>,
           <<"node", "ssmcp", "--url">>,
           <<"node", "ssmcp", "--url", "http://localhost:8080">>,
           <<"node", "ssmcp", "--url", "http://localhost:8080", "-H">>,
           <<"node", "ssmcp", "--url", "http://localhost:8080", "-a", "token">>,
           <<"node", "ssmcp", "--url", "http://localhost:8080", "--auth", "">>,
           <<"node", "ssmcp", "--url", "http://localhost:8080", "-a">>,
           <<"node", "ssmcp", "-H", "X-A: 1", "--url", "http://localhost:8080",
             "--header", "X-A: 2">>,
           <<"node", "ssmcp", "--verbose">> }

\* The script runs: parseArguments(process.argv), then the server is started
\* with the parsed URL and headers, or the usage is printed and the process exits.
RunCommandLine ==
    /\ sample.pc = "input"
    /\ sample.fn = "parseArguments"
    /\ sample' = [sample EXCEPT !.pc = "done", !.out = parseArguments(sample.argv)]
    /\ UNCHANGED <<config, upstream, initPc, manifest, fetches, initResult, initLog, call, peer>>

InitCommandLine ==
    /\ config \in {CHOOSE c \in Configs : TRUE}
    /\ upstream = [x \in {"manifest"} \cup Sections |-> Throws]
    /\ initPc = "idle"
    /\ manifest = Undefined
    /\ fetches = [x \in Sections |-> IdleFetch]
    /\ initResult = Pending
    /\ initLog = <<>>
    /\ call = IdleCall
    /\ peer = IdleCall
    /\ \E argv \in CommandLines :
          sample = [pc |-> "input", fn |-> "parseArguments", argv |-> argv,
                    out |-> Threw("")]

CommandLineNext == RunCommandLine
SpecCommandLine == InitCommandLine /\ [][CommandLineNext]_vars

-----------------------------------------------------------------------------
(* Properties of the command-line parser (checked under SpecCommandLine) *)

\* The command line was --url and one header option, and it has been parsed.
OneHeaderParsed ==
    /\ sample.pc = "done"
    /\ sample.fn = "parseArguments"
    /\ Len(sample.argv) = 6
    /\ sample.argv[3] = "--url"
    /\ sample.argv[5] \in {"-H", "--header"}

\* The name a header option gives: the trimmed text before its first colon.
NameGiven(headerArg) == Trim(SubSeq(headerArg, 1, ColonFrom(headerArg, 1) - 1))

\* The value a header option gives: the whole trimmed text after its first colon.
ValueGiven(headerArg) ==
    Trim(SubSeq(headerArg, ColonFrom(headerArg, 1) + 1, Len(headerArg)))

\* The header option has a colon, with a name before it and a value after it.
WellFormed(headerArg) ==
    /\ ColonFrom(headerArg, 1) > 0
    /\ NameGiven(headerArg) # ""
    /\ ValueGiven(headerArg) # ""

\* C30: a header option "Name: Value" is stored under the trimmed name with the
\* whole trimmed text after the first colon as its value, a value that holds a
\* colon of its own included; an option without a non-empty name and a
\* non-empty value is rejected with an error and nothing is stored.
C30_HeaderStoredWhole ==
    OneHeaderParsed =>
        LET headerArg == sample.argv[6] IN
        IF WellFormed(headerArg)
        THEN /\ sample.out.st = "parsed"
             /\ sample.out.customHeaders =
                   Obj(<<KV(NameGiven(headerArg), Str(ValueGiven(headerArg)))>>)
        ELSE /\ sample.out.st = "exit"
             /\ sample.out.message = InvalidHeaderFormat(headerArg)

\* The part of C30 the code keeps: the same, for an option that has no colon
\* after its first and whose name is not made of spaces alone.
C30_HeaderWithOneColon ==
    (/\ OneHeaderParsed
     /\ Occurrences(sample.argv[6], ":") <= 1
     /\ (ColonFrom(sample.argv[6], 1) > 1 => NameGiven(sample.argv[6]) # "")) =>
        LET headerArg == sample.argv[6] IN
        IF WellFormed(headerArg)
        THEN /\ sample.out.st = "parsed"
             /\ sample.out.customHeaders =
                   Obj(<<KV(NameGiven(headerArg), Str(ValueGiven(headerArg)))>>)
        ELSE /\ sample.out.st = "exit"
             /\ sample.out.message = InvalidHeaderFormat(headerArg)

\* What the code does with a value that holds a colon: the value stored ends
\* before that colon.
C30_ValueCutAtNextColon ==
    (OneHeaderParsed /\ sample.argv[6] = "X-Origin: http://host:8080") =>
        /\ sample.out.st = "parsed"
        /\ sample.out.customHeaders = Obj(<<KV("X-Origin", Str("http"))>>)

\* What the code does with a name made of spaces: the header is stored under
\* the empty name.
C30_BlankNameStored ==
    (OneHeaderParsed /\ sample.argv[6] = " : v") =>
        /\ sample.out.st = "parsed"
        /\ sample.out.customHeaders = Obj(<<KV("", Str("v"))>>)

====
